---- MODULE Spec2Model ----
(***************************************************************************)
(* State-machine model of the multi-track practice player's AudioEngine    *)
(* (src/src/audio/AudioEngine.ts, second class definition, lines 489-1625) *)
(* and of the track configuration (src/src/config/tracks.ts; the audio    *)
(* patterns are in src/unnamed/part_000).                                  *)
(*                                                                         *)
(* Units.  The output clock (audioCtx.currentTime) is counted in           *)
(* milliseconds.  Every input-timeline quantity (the ...Sec fields,        *)
(* buffer durations, bar starts) is counted in 1/BASE_BPM of a             *)
(* millisecond, so that "elapsed * bpm / BASE_BPM" is the integer          *)
(* "elapsedMs * bpm".  Volumes are hundredths, gains are ten-thousandths.  *)
(* Arguments are finite numbers; a bpm argument is an integer.             *)
(***************************************************************************)
EXTENDS Integers, Sequences, FiniteSets, TLC

\* ---------------------------------------------------------------- config
BASE_BPM == 80
MIN_BPM == 60
MAX_BPM == 100
BPM_STEP == 2

\* the tracks of the pattern (three of the five configured tracks)
Tracks == {"violin", "piano_r", "click"}

\* TrackDefinition.initialVolume, in hundredths
initialVolume(t) ==
  CASE t = "violin" -> 85
    [] t = "piano_r" -> 90
    [] OTHER -> 55

\* the upper limit 1 of a volume, in hundredths
VOLUME_ONE == 100

\* scheduling lookahead of play() and of setStartBar(), milliseconds
PLAY_LOOKAHEAD == 4
SEEK_LOOKAHEAD == 5
\* fadeMasterOut(0.01) sleeps durationSec * 1000 + 2 milliseconds
FADE_WAIT == 12

\* a track id that is not a key of trackState
UnknownTrack == "tuba"

\* pattern of the engine: display bars (with a gap), two-beat bars, tempo hints
displayScoreBars == <<0, 72, 102>>
twoBeatDisplayBars == {72}
HintedDisplayBars == {72}
tempoHintsByDisplayBar(displayBar) == 60

\* clock steps the model takes, milliseconds: within the lookahead, and a bar long
FineSteps == {2}
CoarseSteps == {3000}

\* ---------------------------------------------------------------- bounds
\* largest value of the run identifier the model explores
MaxRunId == 5
\* number of fine clock steps explored after each coarse one
MaxFineTicks == 1
\* number of coarse clock steps explored
MaxCoarseTicks == 1
\* number of suspended play()/init()/setStartBar() calls explored at a time
MaxPending == 1

\* ---------------------------------------------------------------- state
VARIABLES
  trackState,            \* track -> [mute, solo, volume, effectiveGain]
  trackGainNodes,        \* track -> [has, target]: the GainNode and its gain target
  audioCtx,              \* "null" | "suspended" | "running"
  masterGain,            \* "null" | "target" | "silent" | "fadein" | "fadeout"
  workletEnabled,        \* stretch node inserted
  pitchBpm,              \* the stretch node's pitch target is BASE_BPM / pitchBpm
  buffers,               \* track -> duration of the decoded buffer, 0 when absent
  initialized, loading, playing,
  bpm, durationSec,
  startContextSec, startInputOffsetSec, pausedInputOffsetSec,
  playbackRunId, endedTrackIds,
  barStartSec, selectedStartBar,
  activeSources,         \* track -> [on, run, at, off, rate]
  stoppedSources,        \* track -> [pending, handler]: a stopped source whose
                         \* ended event is still to be dispatched
  now,                   \* output clock of the current context, milliseconds
  ctxId,                 \* number of AudioContexts created so far
  pending,               \* suspended calls: slot -> [pc, ctx, off, wait]
  lastCall,              \* the last call or callback that changed the engine
  analysis               \* the click analysis stepped through by the analysis
                         \* specifications: its stage, inputs and locals

mixVars == <<trackState, trackGainNodes>>
graphVars == <<audioCtx, masterGain, workletEnabled, pitchBpm, buffers>>
flagVars == <<initialized, loading, playing>>
posVars == <<startContextSec, startInputOffsetSec, pausedInputOffsetSec>>
runVars == <<playbackRunId, endedTrackIds, activeSources, stoppedSources>>
barVars == <<barStartSec, selectedStartBar>>
clockVars == <<now, ctxId>>

vars == <<trackState, trackGainNodes, audioCtx, masterGain, workletEnabled,
          pitchBpm, buffers, initialized, loading, playing, bpm, durationSec,
          startContextSec, startInputOffsetSec, pausedInputOffsetSec,
          playbackRunId, endedTrackIds, barStartSec, selectedStartBar,
          activeSources, stoppedSources, now, ctxId, pending, lastCall, analysis>>

\* ---------------------------------------------------------------- helpers
Min2(a, b) == IF a < b THEN a ELSE b
Max2(a, b) == IF a > b THEN a ELSE b

\* AudioEngine.clamp: Math.min(max, Math.max(min, value))
clamp(value, min, max) == Min2(max, Max2(min, value))

\* Math.round(n / d) for d > 0: the nearest integer, halves rounded up
MathRoundDiv(n, d) == (2 * n + d) \div (2 * d)

\* mutation of normalizeBpm: the value is clamped but not moved to the step grid
normalizeBpmUnstepped(value) == clamp(value, MIN_BPM, MAX_BPM)

\* mutation of normalizeBpm: the value is moved to the step grid but not clamped
normalizeBpmUnclamped(value) == MathRoundDiv(value, BPM_STEP) * BPM_STEP

\* AudioEngine.normalizeBpm
normalizeBpm(value) ==
  LET clamped == clamp(value, MIN_BPM, MAX_BPM)
      stepped == MathRoundDiv(clamped, BPM_STEP) * BPM_STEP
  IN clamp(stepped, MIN_BPM, MAX_BPM)

\* mutation of clampInputOffsetIn: no upper limit
clampInputOffsetInFromZero(value, dur) ==
  IF dur <= 0 THEN 0 ELSE Max2(0, value)

\* AudioEngine.clampInputOffset, on explicit durationSec
clampInputOffsetIn(value, dur) ==
  IF dur <= 0 THEN 0 ELSE clamp(value, 0, dur)

clampInputOffset(value) == clampInputOffsetIn(value, durationSec)

\* ---------------------------------------------------------------- bars
\* one millisecond and one second of the input timeline, in model units
MsUnits(ms) == ms * BASE_BPM
SecUnits(sec) == MsUnits(1000 * sec)

\* constructor: index of a display bar (0-based), -1 when absent
indexOfDisplayBar(displayBar) ==
  IF \E i \in 1..Len(displayScoreBars) : displayScoreBars[i] = displayBar
  THEN (CHOOSE i \in 1..Len(displayScoreBars) : displayScoreBars[i] = displayBar) - 1
  ELSE -1

\* constructor: twoBeatBarIndexes and the domain of tempoHintByBarIndex
twoBeatBarIndexes ==
  {indexOfDisplayBar(b) : b \in {d \in twoBeatDisplayBars : indexOfDisplayBar(d) >= 0}}
tempoHintBarIndexes ==
  {indexOfDisplayBar(b) : b \in {d \in HintedDisplayBars : indexOfDisplayBar(d) >= 0}}
tempoHintByBarIndex(barIndex) == tempoHintsByDisplayBar(displayScoreBars[barIndex + 1])

\* mutation of getBarBeatCount: every bar has four beats
getBarBeatCountFour(barIndex) == 4

\* AudioEngine.getBarBeatCount
getBarBeatCount(barIndex) == IF barIndex \in twoBeatBarIndexes THEN 2 ELSE 4

\* AudioEngine.getExpectedBarDurationSec; fallbackBeatSec in model units
getExpectedBarDurationSec(barIndex, beatCount, fallbackBeatSec) ==
  IF barIndex \in tempoHintBarIndexes /\ tempoHintByBarIndex(barIndex) > 0
  THEN (SecUnits(60) \div tempoHintByBarIndex(barIndex)) * beatCount
  ELSE fallbackBeatSec * beatCount

\* mutation of FallbackLoop: every bar is pushed, also one that starts where
\* the bar before it starts
RECURSIVE FallbackLoopKeepingAll(_, _, _, _, _)
FallbackLoopKeepingAll(bar, cursorSec, bars, dur, targetBarCount) ==
  IF bar >= targetBarCount THEN bars
  ELSE FallbackLoopKeepingAll(bar + 1,
         cursorSec + getExpectedBarDurationSec(bar, getBarBeatCount(bar),
                                               SecUnits(60) \div BASE_BPM),
         Append(bars, Min2(dur, cursorSec)), dur, targetBarCount)

\* AudioEngine.buildFallbackBarStarts: the loop from bar on, bars built so far
RECURSIVE FallbackLoop(_, _, _, _, _)
FallbackLoop(bar, cursorSec, bars, dur, targetBarCount) ==
  IF bar >= targetBarCount THEN bars
  ELSE LET sec == Min2(dur, cursorSec)
           pushed == IF Len(bars) = 0 \/ sec - bars[Len(bars)] > MsUnits(40)
                     THEN Append(bars, sec) ELSE bars
       IN FallbackLoop(bar + 1,
            cursorSec + getExpectedBarDurationSec(bar, getBarBeatCount(bar),
                                                  SecUnits(60) \div BASE_BPM),
            pushed, dur, targetBarCount)

buildFallbackBarStarts(dur, targetBarCount) ==
  LET bars == FallbackLoop(0, 0, <<>>, dur, targetBarCount)
  IN IF Len(bars) > 0 THEN bars ELSE <<0>>

\* AudioEngine.getMaxBar / clampBarNumber / getBarStartSec on an explicit table
getMaxBarOf(bars) ==
  LET maxPatternIndex == Max2(0, Len(displayScoreBars) - 1)
  IN clamp(Min2(maxPatternIndex, Len(bars) - 1), 0, maxPatternIndex)

clampBarNumberOf(bar, bars) == clamp(bar, 0, getMaxBarOf(bars))

getBarStartSecOf(bar, bars) ==
  LET normalizedBar == clampBarNumberOf(bar, bars)
  IN IF normalizedBar + 1 \in DOMAIN bars THEN bars[normalizedBar + 1] ELSE 0

getDisplayBarByIndexOf(index, bars) ==
  LET normalizedBar == clampBarNumberOf(index, bars)
  IN IF normalizedBar + 1 \in DOMAIN displayScoreBars
     THEN displayScoreBars[normalizedBar + 1] ELSE 0

\* mutation of BinarySearchHigh: a bar start equal to the position counts as later
RECURSIVE BinarySearchHighStrict(_, _, _, _)
BinarySearchHighStrict(low, high, inputSec, bars) ==
  IF low > high THEN high
  ELSE LET mid == (low + high) \div 2
       IN IF bars[mid + 1] < inputSec
          THEN BinarySearchHighStrict(mid + 1, high, inputSec, bars)
          ELSE BinarySearchHighStrict(low, mid - 1, inputSec, bars)

\* AudioEngine.findBarByInputSec: the binary search loop, returning high
RECURSIVE BinarySearchHigh(_, _, _, _)
BinarySearchHigh(low, high, inputSec, bars) ==
  IF low > high THEN high
  ELSE LET mid == (low + high) \div 2
       IN IF bars[mid + 1] <= inputSec
          THEN BinarySearchHigh(mid + 1, high, inputSec, bars)
          ELSE BinarySearchHigh(low, mid - 1, inputSec, bars)

\* mutation of findBarByInputSecOf: the search returns low, the bar after
findBarByInputSecOfLow(inputSec, bars) ==
  IF Len(bars) <= 1 THEN 0
  ELSE clampBarNumberOf(BinarySearchHigh(0, Len(bars) - 1, inputSec, bars) + 1, bars)

findBarByInputSecOf(inputSec, bars) ==
  IF Len(bars) <= 1 THEN 0
  ELSE clampBarNumberOf(BinarySearchHigh(0, Len(bars) - 1, inputSec, bars), bars)

\* AudioEngine.findNearestBarIndexByDisplayBar: the loop from index on
Abs(x) == IF x < 0 THEN -x ELSE x

RECURSIVE NearestLoop(_, _, _, _)
NearestLoop(index, bestIndex, bestDistance, displayBar) ==
  IF index >= Len(displayScoreBars) THEN bestIndex
  ELSE LET distance == Abs(displayScoreBars[index + 1] - displayBar)
       IN IF bestDistance < 0 \/ distance < bestDistance
          THEN NearestLoop(index + 1, index, distance, displayBar)
          ELSE NearestLoop(index + 1, bestIndex, bestDistance, displayBar)

\* mutation of findNearestBarIndexByDisplayBarOf: the display bar is taken as
\* an index of the bar table
findNearestBarIndexByDisplayBarOfIndex(displayBar, bars) ==
  clampBarNumberOf(displayBar, bars)

\* bestDistance -1 stands for Number.POSITIVE_INFINITY
findNearestBarIndexByDisplayBarOf(displayBar, bars) ==
  IF Len(displayScoreBars) = 0 THEN 0
  ELSE clampBarNumberOf(NearestLoop(0, 0, -1, displayBar), bars)

getMaxBar == getMaxBarOf(barStartSec)
clampBarNumber(bar) == clampBarNumberOf(bar, barStartSec)
getBarStartSec(bar) == getBarStartSecOf(bar, barStartSec)
getDisplayBarByIndex(index) == getDisplayBarByIndexOf(index, barStartSec)
findBarByInputSec(inputSec) == findBarByInputSecOf(inputSec, barStartSec)
findNearestBarIndexByDisplayBar(displayBar) ==
  findNearestBarIndexByDisplayBarOf(displayBar, barStartSec)

\* ---------------------------------------------------------------- mix
\* InternalTrackState.baseVolume (constructor: track.initialVolume)
baseVolume(t) == initialVolume(t)

\* mutation of applyTrackMix: a soloed track stays audible when muted
applyTrackMixSoloBeatsMute(ts) ==
  LET hasSolo == \E u \in Tracks : ts[u].solo
  IN [t \in Tracks |->
        LET audible == IF hasSolo THEN ts[t].solo ELSE ~ts[t].mute
        IN [ts[t] EXCEPT !.effectiveGain =
              IF audible THEN baseVolume(t) * ts[t].volume ELSE 0]]

\* mutation of applyTrackMix: the solo flags are not consulted
applyTrackMixWithoutSolo(ts) ==
  [t \in Tracks |->
     [ts[t] EXCEPT !.effectiveGain =
        IF ~ts[t].mute THEN baseVolume(t) * ts[t].volume ELSE 0]]

\* AudioEngine.applyTrackMix: the recomputed trackState
applyTrackMix(ts) ==
  LET hasSolo == \E u \in Tracks : ts[u].solo
  IN [t \in Tracks |->
        LET audibleBySolo == ~hasSolo \/ ts[t].solo
            audible == audibleBySolo /\ ~ts[t].mute
        IN [ts[t] EXCEPT !.effectiveGain =
              IF audible THEN baseVolume(t) * ts[t].volume ELSE 0]]

\* AudioEngine.applyTrackMix: gainNode.gain.setTargetAtTime(effectiveGain, ...)
applyTrackMixToNodes(ts, nodes) ==
  [t \in Tracks |->
     IF nodes[t].has THEN [nodes[t] EXCEPT !.target = ts[t].effectiveGain]
     ELSE nodes[t]]

transportVars ==
  <<audioCtx, masterGain, workletEnabled, pitchBpm, buffers, initialized, loading,
    playing, bpm, durationSec, startContextSec, startInputOffsetSec,
    pausedInputOffsetSec, playbackRunId, endedTrackIds, barStartSec,
    selectedStartBar, activeSources, stoppedSources, now, ctxId, pending>>

\* the record kept in lastCall: the call, continuation or callback, its track
\* and numeric argument, and whether it threw (rejected)
Call(op, track, num, threw) == [op |-> op, track |-> track, num |-> num, threw |-> threw]

\* lastCall names the last call, continuation or callback that changed the
\* engine or threw (the clock is none of them); Record is the last conjunct of
\* every such action.  The engine runs the click analysis inside one step of
\* init(), so none of its steps moves the analysis that is stepped through
Record(call) ==
  /\ lastCall' = IF call.threw \/ <<mixVars, transportVars>>' # <<mixVars, transportVars>>
                 THEN call ELSE lastCall
  /\ UNCHANGED analysis

\* mutation of toggleMute: an unknown track id mutes or unmutes every track
toggleMuteAllForUnknown(trackId) ==
  /\ LET mixed == applyTrackMix(
                    IF trackId \notin Tracks
                    THEN [t \in Tracks |-> [trackState[t] EXCEPT !.mute = ~@]]
                    ELSE [trackState EXCEPT ![trackId].mute = ~@])
     IN /\ trackState' = mixed
        /\ trackGainNodes' = applyTrackMixToNodes(mixed, trackGainNodes)
  /\ UNCHANGED transportVars
  /\ Record(Call("toggleMute", trackId, 0, FALSE))

\* AudioEngine.toggleMute
toggleMute(trackId) ==
  /\ IF trackId \notin Tracks
     THEN UNCHANGED mixVars
     ELSE LET mixed == applyTrackMix([trackState EXCEPT ![trackId].mute = ~@])
          IN /\ trackState' = mixed
             /\ trackGainNodes' = applyTrackMixToNodes(mixed, trackGainNodes)
  /\ UNCHANGED transportVars
  /\ Record(Call("toggleMute", trackId, 0, FALSE))

\* AudioEngine.toggleSolo
toggleSolo(trackId) ==
  /\ IF trackId \notin Tracks
     THEN UNCHANGED mixVars
     ELSE LET mixed == applyTrackMix([trackState EXCEPT ![trackId].solo = ~@])
          IN /\ trackState' = mixed
             /\ trackGainNodes' = applyTrackMixToNodes(mixed, trackGainNodes)
  /\ UNCHANGED transportVars
  /\ Record(Call("toggleSolo", trackId, 0, FALSE))

\* AudioEngine.setVolume; volume in hundredths
setVolume(trackId, volume) ==
  /\ IF trackId \notin Tracks
     THEN UNCHANGED mixVars
     ELSE LET mixed == applyTrackMix(
                 [trackState EXCEPT ![trackId].volume = clamp(volume, 0, VOLUME_ONE)])
          IN /\ trackState' = mixed
             /\ trackGainNodes' = applyTrackMixToNodes(mixed, trackGainNodes)
  /\ UNCHANGED transportVars
  /\ Record(Call("setVolume", trackId, volume, FALSE))

\* ---------------------------------------------------------------- position
\* AudioEngine.getTempoRatio: this.bpm / BASE_BPM, counted in 1/BASE_BPM
getTempoRatio == bpm

\* mutation of getCurrentInputSecAt: the elapsed time is not held at 0 before
\* the scheduled start
getCurrentInputSecAtUnguarded(clock) ==
  IF ~playing \/ audioCtx = "null"
  THEN clampInputOffset(pausedInputOffsetSec)
  ELSE clampInputOffset(startInputOffsetSec + (clock - startContextSec) * getTempoRatio)

\* mutation of getCurrentInputSecAt: the input progresses at the base tempo
getCurrentInputSecAtBaseTempo(clock) ==
  IF ~playing \/ audioCtx = "null"
  THEN clampInputOffset(pausedInputOffsetSec)
  ELSE LET outputElapsedSec == Max2(0, clock - startContextSec)
           inputProgressSec == outputElapsedSec * BASE_BPM
       IN clampInputOffset(startInputOffsetSec + inputProgressSec)

\* AudioEngine.getCurrentInputSec, read at output-clock value clock
getCurrentInputSecAt(clock) ==
  IF ~playing \/ audioCtx = "null"
  THEN clampInputOffset(pausedInputOffsetSec)
  ELSE LET outputElapsedSec == Max2(0, clock - startContextSec)
           inputProgressSec == outputElapsedSec * getTempoRatio
       IN clampInputOffset(startInputOffsetSec + inputProgressSec)

getCurrentInputSec == getCurrentInputSecAt(now)

\* ---------------------------------------------------------------- sources
NoSource == [on |-> FALSE, run |-> 0, at |-> 0, off |-> 0, rate |-> 0]
NoSources == [t \in Tracks |-> NoSource]
NoNode == [has |-> FALSE, target |-> 0]
NoBuffers == [t \in Tracks |-> 0]
NoEvent == [pending |-> FALSE, handler |-> FALSE]

\* mutation of DetachedSources: the handler of a stopped source stays attached
DetachedSourcesKeepingHandler ==
  [t \in Tracks |->
     IF activeSources[t].on THEN [pending |-> TRUE, handler |-> TRUE]
     ELSE stoppedSources[t]]

\* stopCurrentSources, its loop: every registered source loses its onended
\* handler and is stopped, so that its ended event will be dispatched with no
\* handler to run
DetachedSources ==
  [t \in Tracks |->
     IF activeSources[t].on THEN [pending |-> TRUE, handler |-> FALSE]
     ELSE stoppedSources[t]]

\* mutation of startSourcesAtOffset: with no source to start, the selected bar
\* and the offsets are left as they are
startSourcesAtOffsetWithoutReset(offsetSec, scheduledStartSec, rid) ==
  LET resolvedOffset == clampInputOffset(offsetSec)
      runId == rid + 1
      usable(t) == buffers[t] > 0 /\ trackGainNodes[t].has
      started == {t \in Tracks : usable(t) /\ resolvedOffset < buffers[t]}
      ended == {t \in Tracks : usable(t) /\ resolvedOffset >= buffers[t]}
      sources == [t \in Tracks |->
                    IF t \in started
                    THEN [on |-> TRUE, run |-> runId, at |-> scheduledStartSec,
                          off |-> resolvedOffset, rate |-> getTempoRatio]
                    ELSE NoSource]
  IN IF started = {}
     THEN [playbackRunId |-> runId, endedTrackIds |-> ended, activeSources |-> sources,
           playing |-> FALSE, selectedStartBar |-> selectedStartBar,
           pausedInputOffsetSec |-> pausedInputOffsetSec,
           startInputOffsetSec |-> startInputOffsetSec,
           startContextSec |-> startContextSec,
           masterGain |-> masterGain, pitchBpm |-> pitchBpm]
     ELSE [playbackRunId |-> runId, endedTrackIds |-> ended, activeSources |-> sources,
           playing |-> TRUE, selectedStartBar |-> findBarByInputSec(resolvedOffset),
           pausedInputOffsetSec |-> resolvedOffset,
           startInputOffsetSec |-> resolvedOffset,
           startContextSec |-> scheduledStartSec,
           masterGain |-> IF masterGain = "null" THEN "null" ELSE "fadein",
           pitchBpm |-> IF workletEnabled THEN getTempoRatio ELSE pitchBpm]

\* AudioEngine.startSourcesAtOffset, entered with run identifier rid and no
\* registered source; the fields it leaves behind
startSourcesAtOffset(offsetSec, scheduledStartSec, rid) ==
  LET resolvedOffset == clampInputOffset(offsetSec)
      runId == rid + 1
      usable(t) == buffers[t] > 0 /\ trackGainNodes[t].has
      started == {t \in Tracks : usable(t) /\ resolvedOffset < buffers[t]}
      ended == {t \in Tracks : usable(t) /\ resolvedOffset >= buffers[t]}
      sources == [t \in Tracks |->
                    IF t \in started
                    THEN [on |-> TRUE, run |-> runId, at |-> scheduledStartSec,
                          off |-> resolvedOffset, rate |-> getTempoRatio]
                    ELSE NoSource]
  IN IF started = {}
     THEN [playbackRunId |-> runId, endedTrackIds |-> ended, activeSources |-> sources,
           playing |-> FALSE, selectedStartBar |-> 0,
           pausedInputOffsetSec |-> getBarStartSec(0),
           startInputOffsetSec |-> getBarStartSec(0),
           startContextSec |-> startContextSec,
           masterGain |-> masterGain, pitchBpm |-> pitchBpm]
     ELSE [playbackRunId |-> runId, endedTrackIds |-> ended, activeSources |-> sources,
           playing |-> TRUE, selectedStartBar |-> findBarByInputSec(resolvedOffset),
           pausedInputOffsetSec |-> resolvedOffset,
           startInputOffsetSec |-> resolvedOffset,
           startContextSec |-> scheduledStartSec,
           masterGain |-> IF masterGain = "null" THEN "null" ELSE "fadein",
           pitchBpm |-> IF workletEnabled THEN getTempoRatio ELSE pitchBpm]

\* the assignments of startSourcesAtOffset
Started(r) ==
  /\ playbackRunId' = r.playbackRunId
  /\ endedTrackIds' = r.endedTrackIds
  /\ activeSources' = r.activeSources
  /\ playing' = r.playing
  /\ selectedStartBar' = r.selectedStartBar
  /\ pausedInputOffsetSec' = r.pausedInputOffsetSec
  /\ startInputOffsetSec' = r.startInputOffsetSec
  /\ startContextSec' = r.startContextSec
  /\ masterGain' = r.masterGain
  /\ pitchBpm' = r.pitchBpm

\* mutation of stopCurrentSources: the registered sources are kept
stopCurrentSourcesKeepingSources ==
  /\ playbackRunId' = playbackRunId + 1
  /\ endedTrackIds' = {}
  /\ activeSources' = activeSources
  /\ stoppedSources' = DetachedSources

\* mutation of stopCurrentSources: the run identifier is left as it is
stopCurrentSourcesSameRun ==
  /\ playbackRunId' = playbackRunId
  /\ endedTrackIds' = {}
  /\ activeSources' = NoSources
  /\ stoppedSources' = DetachedSources

\* AudioEngine.stopCurrentSources
stopCurrentSources ==
  /\ playbackRunId' = playbackRunId + 1
  /\ endedTrackIds' = {}
  /\ activeSources' = NoSources
  /\ stoppedSources' = DetachedSources

\* mutation of disposeNodes: the track gain nodes stay registered
disposeNodesKeepingGainNodes ==
  /\ stopCurrentSources
  /\ trackGainNodes' = trackGainNodes
  /\ workletEnabled' = FALSE
  /\ pitchBpm' = 0
  /\ masterGain' = "null"
  /\ audioCtx' = "null"
  /\ now' = 0
  /\ buffers' = NoBuffers
  /\ initialized' = FALSE
  /\ loading' = FALSE
  /\ playing' = FALSE
  /\ durationSec' = 0
  /\ startContextSec' = 0
  /\ startInputOffsetSec' = 0
  /\ pausedInputOffsetSec' = 0
  /\ barStartSec' = <<0>>
  /\ selectedStartBar' = 0

\* AudioEngine.disposeNodes
disposeNodes ==
  /\ stopCurrentSources
  /\ trackGainNodes' = [t \in Tracks |-> NoNode]
  /\ workletEnabled' = FALSE
  /\ pitchBpm' = 0
  /\ masterGain' = "null"
  /\ audioCtx' = "null"
  /\ now' = 0
  /\ buffers' = NoBuffers
  /\ initialized' = FALSE
  /\ loading' = FALSE
  /\ playing' = FALSE
  /\ durationSec' = 0
  /\ startContextSec' = 0
  /\ startInputOffsetSec' = 0
  /\ pausedInputOffsetSec' = 0
  /\ barStartSec' = <<0>>
  /\ selectedStartBar' = 0

\* suspended calls
Slots == 1..MaxPending
Idle == [pc |-> "idle", ctx |-> 0, off |-> 0, wait |-> 0]
Suspended(pc, ctx, off, wait) == [pc |-> pc, ctx |-> ctx, off |-> off, wait |-> wait]
FreeSlots == {s \in Slots : pending[s].pc = "idle"}
FreeSlot == CHOOSE s \in FreeSlots : \A u \in FreeSlots : s <= u
\* slot 0 stands for a call that is running and holds no slot yet
CanPark(s) == s # 0 \/ FreeSlots # {}
Park(s, rec) == [pending EXCEPT ![IF s = 0 THEN FreeSlot ELSE s] = rec]
Release(s) == IF s = 0 THEN pending ELSE [pending EXCEPT ![s] = Idle]

\* ---------------------------------------------------------------- loader
\* what the audio loader can deliver: decoded durations per track; the click
\* track holds fewer beats than buildBarMapFromClick needs for alignment
LoadOutcomes ==
  { [t \in Tracks |-> IF t = "click" THEN MsUnits(5500) ELSE MsUnits(6000)],
    [t \in Tracks |-> MsUnits(5000)] }

MaxOver(S) == CHOOSE m \in S : \A x \in S : x <= m

\* AudioEngine.buildBarMapFromClick for a click buffer below minBeatCount beats
buildBarMapFromClick(bufs) ==
  IF bufs["click"] = 0 THEN <<0>>
  ELSE buildFallbackBarStarts(bufs["click"], Len(displayScoreBars))

\* ---------------------------------------------------------------- init
\* init()/play(): the synchronous head of init() up to the first await; the new
\* AudioContext starts in one of ctxStates
InitHead(op, owner, ctxStates) ==
  /\ FreeSlots # {}
  /\ \E st \in ctxStates : audioCtx' = st
  /\ loading' = TRUE
  /\ ctxId' = ctxId + 1
  /\ now' = 0
  /\ masterGain' = "target"
  /\ pending' = [pending EXCEPT ![FreeSlot] =
                   Suspended(owner \o ".worklet", ctxId + 1, 0, 0)]
  /\ UNCHANGED <<mixVars, workletEnabled, pitchBpm, buffers, initialized, playing,
                 bpm, durationSec, posVars, runVars, barVars>>
  /\ Record(Call(op, "", 0, FALSE))

\* init()/play(): graph setup throws in init(): catch, disposeNodes, rethrow
InitSetupThrows(op) ==
  /\ ~initialized /\ ~loading
  /\ playbackRunId < MaxRunId
  /\ disposeNodes
  /\ UNCHANGED <<trackState, bpm, ctxId, pending>>
  /\ Record(Call(op, "", 0, TRUE))

\* mutation of init: the test of initialized and loading is left out
initUnguarded(ctxStates) == InitHead("init", "init", ctxStates)

\* AudioEngine.init, called directly
init(ctxStates) ==
  IF initialized \/ loading
  THEN /\ UNCHANGED <<mixVars, transportVars>>
       /\ Record(Call("init", "", 0, FALSE))
  ELSE InitHead("init", "init", ctxStates)

\* mutation of InitAfterWorklet: the stretch node is created with pitch 1
InitAfterWorkletAtBasePitch(s, owner, enabled) ==
  /\ pending[s].pc = owner \o ".worklet"
  /\ enabled => audioCtx # "null" /\ pending[s].ctx = ctxId
  /\ IF audioCtx = "null"
     THEN \* mixGainNode is null: TypeError, catch, disposeNodes, rethrow
          /\ playbackRunId < MaxRunId
          /\ disposeNodes
          /\ pending' = [pending EXCEPT ![s] = Idle]
          /\ UNCHANGED <<trackState, bpm, ctxId>>
          /\ Record(Call(owner \o ".worklet", "", 0, TRUE))
     ELSE LET mixed == applyTrackMix(trackState)
          IN /\ workletEnabled' = enabled
             /\ pitchBpm' = IF enabled THEN BASE_BPM ELSE pitchBpm
             /\ trackState' = mixed
             /\ trackGainNodes' = applyTrackMixToNodes(mixed,
                                    [t \in Tracks |-> [has |-> TRUE, target |-> 0]])
             /\ pending' = [pending EXCEPT ![s] =
                              Suspended(owner \o ".load", pending[s].ctx, 0, 0)]
             /\ UNCHANGED <<audioCtx, masterGain, buffers, flagVars, bpm, durationSec,
                            posVars, runVars, barVars, clockVars>>
             /\ Record(Call(owner \o ".worklet", "", 0, FALSE))

\* init() resumed after await setupStretchWorklet()
InitAfterWorklet(s, owner, enabled) ==
  /\ pending[s].pc = owner \o ".worklet"
  /\ enabled => audioCtx # "null" /\ pending[s].ctx = ctxId
  /\ IF audioCtx = "null"
     THEN \* mixGainNode is null: TypeError, catch, disposeNodes, rethrow
          /\ playbackRunId < MaxRunId
          /\ disposeNodes
          /\ pending' = [pending EXCEPT ![s] = Idle]
          /\ UNCHANGED <<trackState, bpm, ctxId>>
          /\ Record(Call(owner \o ".worklet", "", 0, TRUE))
     ELSE LET mixed == applyTrackMix(trackState)
          IN /\ workletEnabled' = enabled
             /\ pitchBpm' = IF enabled THEN bpm ELSE pitchBpm
             /\ trackState' = mixed
             /\ trackGainNodes' = applyTrackMixToNodes(mixed,
                                    [t \in Tracks |-> [has |-> TRUE, target |-> 0]])
             /\ pending' = [pending EXCEPT ![s] =
                              Suspended(owner \o ".load", pending[s].ctx, 0, 0)]
             /\ UNCHANGED <<audioCtx, masterGain, buffers, flagVars, bpm, durationSec,
                            posVars, runVars, barVars, clockVars>>
             /\ Record(Call(owner \o ".worklet", "", 0, FALSE))

\* init() resumed after await loadTrackBuffers(): a load failed
InitLoadFailed(s, owner) ==
  /\ pending[s].pc = owner \o ".load"
  /\ playbackRunId < MaxRunId
  /\ disposeNodes
  /\ pending' = [pending EXCEPT ![s] = Idle]
  /\ UNCHANGED <<trackState, bpm, ctxId>>
  /\ Record(Call(owner \o ".load", "", 0, TRUE))

\* mutation of InitLoaded: a play() that awaited this init() does not go on
InitLoadedWithoutResume(s, owner, bufs) ==
  /\ pending[s].pc = owner \o ".load"
  /\ buffers' = bufs
  /\ durationSec' = MaxOver({0} \cup {bufs[t] : t \in Tracks})
  /\ barStartSec' = buildBarMapFromClick(bufs)
  /\ selectedStartBar' = clampBarNumberOf(selectedStartBar, buildBarMapFromClick(bufs))
  /\ initialized' = TRUE
  /\ loading' = FALSE
  /\ pending' = [pending EXCEPT ![s] = Idle]
  /\ UNCHANGED <<mixVars, audioCtx, masterGain, workletEnabled, pitchBpm, playing, bpm,
                 posVars, runVars, clockVars>>
  /\ Record(Call(owner \o ".load", "", 0, FALSE))

\* init() resumed after await loadTrackBuffers(): all tracks decoded; a play()
\* that awaited this init() goes on in a microtask (play.body)
InitLoaded(s, owner, bufs) ==
  /\ pending[s].pc = owner \o ".load"
  /\ buffers' = bufs
  /\ durationSec' = MaxOver({0} \cup {bufs[t] : t \in Tracks})
  /\ barStartSec' = buildBarMapFromClick(bufs)
  /\ selectedStartBar' = clampBarNumberOf(selectedStartBar, buildBarMapFromClick(bufs))
  /\ initialized' = TRUE
  /\ loading' = FALSE
  /\ pending' = [pending EXCEPT ![s] =
                   IF owner = "play" THEN Suspended("play.body", pending[s].ctx, 0, 0)
                   ELSE Idle]
  /\ UNCHANGED <<mixVars, audioCtx, masterGain, workletEnabled, pitchBpm, playing, bpm,
                 posVars, runVars, clockVars>>
  /\ Record(Call(owner \o ".load", "", 0, FALSE))

\* ---------------------------------------------------------------- play
\* mutation of playResolvedOffset: every run starts at the selected bar
playResolvedOffsetAtSelectedBar == getBarStartSec(selectedStartBar)

\* play(): the offset the new run starts at (const resolvedOffset)
playResolvedOffset ==
  LET offsetSec == clampInputOffset(pausedInputOffsetSec)
  IN IF durationSec > 0 /\ offsetSec >= durationSec
     THEN getBarStartSec(selectedStartBar)
     ELSE offsetSec

\* play(): stopCurrentSources() and startSourcesAtOffset(resolvedOffset, now + 0.004)
PlayStart(op, s) ==
  /\ playbackRunId + 2 <= MaxRunId
  /\ stoppedSources' = DetachedSources
  /\ Started(startSourcesAtOffset(playResolvedOffset, now + PLAY_LOOKAHEAD,
                                  playbackRunId + 1))
  /\ pending' = Release(s)
  /\ UNCHANGED <<mixVars, workletEnabled, buffers, initialized, loading, bpm,
                 durationSec, barStartSec, clockVars>>
  /\ Record(Call(op, "", 0, FALSE))

\* mutation of PlayBody: the test of loading and playing is left out
PlayBodyRestarting(op, s) ==
  IF audioCtx = "null"
  THEN /\ pending' = Release(s)
       /\ UNCHANGED <<mixVars, graphVars, flagVars, bpm, durationSec, posVars, runVars,
                      barVars, clockVars>>
       /\ Record(Call(op, "", 0, TRUE))
  ELSE audioCtx' = audioCtx /\ PlayStart(op, s)

\* play() from the audioCtx check on, for the call kept in slot s
PlayBody(op, s) ==
  IF audioCtx = "null"
  THEN /\ pending' = Release(s)
       /\ UNCHANGED <<mixVars, graphVars, flagVars, bpm, durationSec, posVars, runVars,
                      barVars, clockVars>>
       /\ Record(Call(op, "", 0, TRUE))
  ELSE IF loading \/ playing
  THEN /\ pending' = Release(s)
       /\ UNCHANGED <<mixVars, graphVars, flagVars, bpm, durationSec, posVars, runVars,
                      barVars, clockVars>>
       /\ Record(Call(op, "", 0, FALSE))
  ELSE IF audioCtx = "suspended"
  THEN /\ CanPark(s)
       /\ pending' = Park(s, Suspended("play.resume", ctxId, 0, 0))
       /\ UNCHANGED <<mixVars, graphVars, flagVars, bpm, durationSec, posVars, runVars,
                      barVars, clockVars>>
       /\ Record(Call(op, "", 0, FALSE))
  ELSE audioCtx' = audioCtx /\ PlayStart(op, s)

\* AudioEngine.play, the call
play(ctxStates) ==
  IF initialized \/ loading
  THEN PlayBody("play", 0)
  ELSE InitHead("play", "play", ctxStates)

\* play() resumed in the microtask after its own init() succeeded
PlayAfterInit(s) ==
  /\ pending[s].pc = "play.body"
  /\ PlayBody("play.body", s)

\* play() resumed after await audioCtx.resume()
PlayResumed(s) ==
  /\ pending[s].pc = "play.resume"
  /\ IF audioCtx = "null" \/ pending[s].ctx # ctxId
     THEN \* the context was closed meanwhile: resume() rejects
          /\ pending' = [pending EXCEPT ![s] = Idle]
          /\ UNCHANGED <<mixVars, graphVars, flagVars, bpm, durationSec, posVars,
                         runVars, barVars, clockVars>>
          /\ Record(Call("play.resume", "", 0, TRUE))
     ELSE /\ audioCtx' = "running"
          /\ PlayStart("play.resume", s)

MicrotaskPending == \E s \in Slots : pending[s].pc = "play.body"

\* ---------------------------------------------------------------- transport
\* mutation of pause: the selected start bar is left where it was
pauseKeepingBar ==
  /\ IF ~playing \/ audioCtx = "null"
     THEN UNCHANGED <<mixVars, transportVars>>
     ELSE LET currentInputSec == getCurrentInputSec
          IN /\ playbackRunId < MaxRunId
             /\ masterGain' = IF masterGain = "null" THEN "null" ELSE "silent"
             /\ stopCurrentSources
             /\ playing' = FALSE
             /\ pausedInputOffsetSec' = clampInputOffset(currentInputSec)
             /\ startInputOffsetSec' = clampInputOffset(currentInputSec)
             /\ selectedStartBar' = selectedStartBar
             /\ UNCHANGED <<mixVars, audioCtx, workletEnabled, pitchBpm, buffers,
                            initialized, loading, bpm, durationSec, startContextSec,
                            barStartSec, clockVars, pending>>
  /\ Record(Call("pause", "", 0, FALSE))

\* AudioEngine.pause
pause ==
  /\ IF ~playing \/ audioCtx = "null"
     THEN UNCHANGED <<mixVars, transportVars>>
     ELSE LET currentInputSec == getCurrentInputSec
          IN /\ playbackRunId < MaxRunId
             /\ masterGain' = IF masterGain = "null" THEN "null" ELSE "silent"
             /\ stopCurrentSources
             /\ playing' = FALSE
             /\ pausedInputOffsetSec' = clampInputOffset(currentInputSec)
             /\ startInputOffsetSec' = clampInputOffset(currentInputSec)
             /\ selectedStartBar' = findBarByInputSec(clampInputOffset(currentInputSec))
             /\ UNCHANGED <<mixVars, audioCtx, workletEnabled, pitchBpm, buffers,
                            initialized, loading, bpm, durationSec, startContextSec,
                            barStartSec, clockVars, pending>>
  /\ Record(Call("pause", "", 0, FALSE))

\* AudioEngine.stop
stop ==
  /\ playbackRunId < MaxRunId
  /\ stopCurrentSources
  /\ playing' = FALSE
  /\ selectedStartBar' = 0
  /\ pausedInputOffsetSec' = getBarStartSecOf(0, barStartSec)
  /\ startInputOffsetSec' = getBarStartSecOf(0, barStartSec)
  /\ masterGain' = IF audioCtx # "null" /\ masterGain # "null" THEN "target" ELSE masterGain
  /\ UNCHANGED <<mixVars, audioCtx, workletEnabled, pitchBpm, buffers, initialized,
                 loading, bpm, durationSec, startContextSec, barStartSec, clockVars,
                 pending>>
  /\ Record(Call("stop", "", 0, FALSE))

\* AudioEngine.destroy
destroy ==
  /\ playbackRunId < MaxRunId
  /\ disposeNodes
  /\ UNCHANGED <<trackState, bpm, ctxId, pending>>
  /\ Record(Call("destroy", "", 0, FALSE))

\* mutation of setBpmAnchor: the start reference is left where it was
setBpmAnchorSkipped == UNCHANGED <<posVars, selectedStartBar>>

\* mutation of setBpmAnchor: the start reference is re-anchored also when the
\* engine is not playing
setBpmAnchorAlways ==
  IF audioCtx # "null"
  THEN LET currentInputSec == getCurrentInputSec
       IN /\ startContextSec' = now
          /\ startInputOffsetSec' = clampInputOffset(currentInputSec)
          /\ pausedInputOffsetSec' = clampInputOffset(currentInputSec)
          /\ selectedStartBar' = findBarByInputSec(clampInputOffset(currentInputSec))
  ELSE UNCHANGED <<posVars, selectedStartBar>>

\* setBpm: the start reference is re-anchored to the captured position
setBpmAnchor ==
  IF playing /\ audioCtx # "null"
  THEN LET currentInputSec == getCurrentInputSec
       IN /\ startContextSec' = now
          /\ startInputOffsetSec' = clampInputOffset(currentInputSec)
          /\ pausedInputOffsetSec' = clampInputOffset(currentInputSec)
          /\ selectedStartBar' = findBarByInputSec(clampInputOffset(currentInputSec))
  ELSE UNCHANGED <<posVars, selectedStartBar>>

\* AudioEngine.setTempoParameters with the tempo ratio targetRatio: the bpm
\* whose pitch correction the stretch node is set to
setTempoParameters(targetRatio) ==
  IF workletEnabled /\ audioCtx # "null" THEN targetRatio ELSE pitchBpm

\* mutation of setActiveSourcePlaybackRate: the sources are stopped and dropped
setActiveSourcePlaybackRateDropping(targetRate) == NoSources

\* mutation of setActiveSourcePlaybackRate: the click source keeps its rate
setActiveSourcePlaybackRateButClick(targetRate) ==
  IF audioCtx = "null" THEN activeSources
  ELSE [t \in Tracks |->
          IF activeSources[t].on /\ t # "click"
          THEN [activeSources[t] EXCEPT !.rate = targetRate]
          ELSE activeSources[t]]

\* AudioEngine.setActiveSourcePlaybackRate: the sources with their new rate target
setActiveSourcePlaybackRate(targetRate) ==
  IF audioCtx = "null" THEN activeSources
  ELSE [t \in Tracks |->
          IF activeSources[t].on
          THEN [activeSources[t] EXCEPT !.rate = targetRate]
          ELSE activeSources[t]]

\* AudioEngine.setBpm, recorded as call op with argument num
SetBpmAs(op, num, nextBpm) ==
  LET normalized == normalizeBpm(nextBpm)
  IN /\ IF normalized = bpm
        THEN UNCHANGED <<mixVars, transportVars>>
        ELSE /\ setBpmAnchor
             /\ bpm' = normalized
             /\ pitchBpm' = setTempoParameters(normalized)
             /\ activeSources' = setActiveSourcePlaybackRate(normalized)
             /\ UNCHANGED <<mixVars, audioCtx, masterGain, workletEnabled, buffers,
                            flagVars, durationSec, playbackRunId, endedTrackIds,
                            stoppedSources,
                            barStartSec, clockVars, pending>>
     /\ Record(Call(op, "", num, FALSE))

setBpm(nextBpm) == SetBpmAs("setBpm", nextBpm, nextBpm)

\* AudioEngine.changeBpm
changeBpm(delta) == SetBpmAs("changeBpm", delta, bpm + delta)

\* AudioEngine.resetBpm
resetBpm == SetBpmAs("resetBpm", 0, BASE_BPM)

\* mutation of setStartBar: the paused offset is not moved to the bar
setStartBarKeepingOffset(bar) ==
  LET normalizedBar == findNearestBarIndexByDisplayBar(bar)
      nextOffset == getBarStartSec(normalizedBar)
  IN /\ selectedStartBar' = normalizedBar
     /\ pausedInputOffsetSec' = pausedInputOffsetSec
     /\ startInputOffsetSec' = nextOffset
     /\ IF playing /\ audioCtx # "null"
        THEN /\ FreeSlots # {}
             /\ masterGain' = IF masterGain = "null" THEN "null" ELSE "fadeout"
             /\ pending' = [pending EXCEPT ![FreeSlot] =
                              Suspended("seek.fade", ctxId, nextOffset,
                                        IF masterGain = "null" THEN 0 ELSE FADE_WAIT)]
        ELSE UNCHANGED <<masterGain, pending>>
     /\ UNCHANGED <<mixVars, audioCtx, workletEnabled, pitchBpm, buffers, flagVars, bpm,
                    durationSec, startContextSec, runVars, barStartSec, clockVars>>
     /\ Record(Call("setStartBar", "", bar, FALSE))

\* AudioEngine.setStartBar, up to await fadeMasterOut(0.01); bar is an integer
setStartBar(bar) ==
  LET normalizedBar == findNearestBarIndexByDisplayBar(bar)
      nextOffset == getBarStartSec(normalizedBar)
  IN /\ selectedStartBar' = normalizedBar
     /\ pausedInputOffsetSec' = nextOffset
     /\ startInputOffsetSec' = nextOffset
     /\ IF playing /\ audioCtx # "null"
        THEN /\ FreeSlots # {}
             /\ masterGain' = IF masterGain = "null" THEN "null" ELSE "fadeout"
             /\ pending' = [pending EXCEPT ![FreeSlot] =
                              Suspended("seek.fade", ctxId, nextOffset,
                                        IF masterGain = "null" THEN 0 ELSE FADE_WAIT)]
        ELSE UNCHANGED <<masterGain, pending>>
     /\ UNCHANGED <<mixVars, audioCtx, workletEnabled, pitchBpm, buffers, flagVars, bpm,
                    durationSec, startContextSec, runVars, barStartSec, clockVars>>
     /\ Record(Call("setStartBar", "", bar, FALSE))

\* mutation of SeekResumed: the registered sources are moved to the new offset
\* in place, within the run they belong to
SeekResumedInPlace(s) ==
  LET wait == pending[s].wait
      due == IF audioCtx = "running" THEN now + wait ELSE now
  IN /\ pending[s].pc = "seek.fade"
     /\ audioCtx # "null"
     /\ pending' = [pending EXCEPT ![s] = Idle]
     /\ now' = due
     /\ activeSources' = [t \in Tracks |->
                            IF activeSources[t].on
                            THEN [activeSources[t] EXCEPT !.off = pending[s].off,
                                                          !.at = due + SEEK_LOOKAHEAD]
                            ELSE activeSources[t]]
     /\ startInputOffsetSec' = pending[s].off
     /\ pausedInputOffsetSec' = pending[s].off
     /\ startContextSec' = due + SEEK_LOOKAHEAD
     /\ UNCHANGED <<mixVars, graphVars, flagVars, bpm, durationSec, playbackRunId,
                    endedTrackIds, stoppedSources, barVars, ctxId>>
     /\ Record(Call("seek.fade", "", 0, FALSE))

\* mutation of SeekResumed: the running sources are not stopped before the
\* new ones are started
SeekResumedWithoutStop(s) ==
  LET wait == pending[s].wait
      due == IF audioCtx = "running" THEN now + wait ELSE now
  IN /\ pending[s].pc = "seek.fade"
     /\ \A u \in Slots : pending[u].pc = "seek.fade" => wait <= pending[u].wait
     /\ pending' = [u \in Slots |->
                      IF u = s THEN Idle
                      ELSE [pending[u] EXCEPT !.wait = Max2(0, @ - wait)]]
     /\ now' = due
     /\ ctxId' = ctxId
     /\ IF audioCtx = "null"
        THEN \* this.audioCtx.currentTime throws after stopCurrentSources()
             /\ playbackRunId < MaxRunId
             /\ stopCurrentSources
             /\ playing' = FALSE
             /\ UNCHANGED <<mixVars, graphVars, initialized, loading, bpm, durationSec,
                            posVars, barVars>>
             /\ Record(Call("seek.fade", "", 0, TRUE))
        ELSE /\ playbackRunId + 2 <= MaxRunId
             /\ stoppedSources' = stoppedSources
             /\ Started(startSourcesAtOffset(pending[s].off, due + SEEK_LOOKAHEAD,
                                             playbackRunId + 1))
             /\ UNCHANGED <<mixVars, audioCtx, workletEnabled, buffers, initialized,
                            loading, bpm, durationSec, barStartSec>>
             /\ Record(Call("seek.fade", "", 0, FALSE))

\* setStartBar() resumed after the fade-out wait: the timer of slot s, the
\* first one due, fires when its wait has elapsed
SeekResumed(s) ==
  LET wait == pending[s].wait
      due == IF audioCtx = "running" THEN now + wait ELSE now
  IN /\ pending[s].pc = "seek.fade"
     /\ \A u \in Slots : pending[u].pc = "seek.fade" => wait <= pending[u].wait
     /\ pending' = [u \in Slots |->
                      IF u = s THEN Idle
                      ELSE [pending[u] EXCEPT !.wait = Max2(0, @ - wait)]]
     /\ now' = due
     /\ ctxId' = ctxId
     /\ IF audioCtx = "null"
        THEN \* this.audioCtx.currentTime throws after stopCurrentSources()
             /\ playbackRunId < MaxRunId
             /\ stopCurrentSources
             /\ playing' = FALSE
             /\ UNCHANGED <<mixVars, graphVars, initialized, loading, bpm, durationSec,
                            posVars, barVars>>
             /\ Record(Call("seek.fade", "", 0, TRUE))
        ELSE /\ playbackRunId + 2 <= MaxRunId
             /\ stoppedSources' = DetachedSources
             /\ Started(startSourcesAtOffset(pending[s].off, due + SEEK_LOOKAHEAD,
                                             playbackRunId + 1))
             /\ UNCHANGED <<mixVars, audioCtx, workletEnabled, buffers, initialized,
                            loading, bpm, durationSec, barStartSec>>
             /\ Record(Call("seek.fade", "", 0, FALSE))

\* the source registered for track t can have played its buffer to the end:
\* it has started and, at the highest rate, has covered what was left of it
SourceAtEnd(t) ==
  /\ activeSources[t].on
  /\ now >= activeSources[t].at
  /\ activeSources[t].off + (now - activeSources[t].at) * MAX_BPM >= buffers[t]

\* mutation of onended: the last callback of a run does not end the run
onendedWithoutCompletion(t) ==
  /\ SourceAtEnd(t)
  /\ activeSources' = [activeSources EXCEPT ![t] = NoSource]
  /\ endedTrackIds' = endedTrackIds \cup {t}
  /\ UNCHANGED <<mixVars, graphVars, flagVars, bpm, durationSec, posVars,
                 playbackRunId, stoppedSources, barVars, clockVars, pending>>
  /\ Record(Call("onended", t, 0, FALSE))

\* mutation of onendedHandler: the ended source stays registered
onendedHandlerKeepingSource(t, runId) ==
  /\ activeSources' = activeSources
  /\ IF runId # playbackRunId \/ ~playing
     THEN UNCHANGED <<endedTrackIds, playing, selectedStartBar, posVars>>
     ELSE /\ endedTrackIds' = endedTrackIds \cup {t}
          /\ IF Cardinality(endedTrackIds \cup {t}) = Cardinality(Tracks)
             THEN /\ playing' = FALSE
                  /\ selectedStartBar' = 0
                  /\ startInputOffsetSec' = getBarStartSecOf(0, barStartSec)
                  /\ pausedInputOffsetSec' = getBarStartSecOf(0, barStartSec)
                  /\ UNCHANGED startContextSec
             ELSE UNCHANGED <<playing, selectedStartBar, posVars>>

\* the handler startSourcesAtOffset attaches to the source of track t in run runId
onendedHandler(t, runId) ==
  /\ activeSources' = [activeSources EXCEPT ![t] = NoSource]
  /\ IF runId # playbackRunId \/ ~playing
     THEN UNCHANGED <<endedTrackIds, playing, selectedStartBar, posVars>>
     ELSE /\ endedTrackIds' = endedTrackIds \cup {t}
          /\ IF Cardinality(endedTrackIds \cup {t}) = Cardinality(Tracks)
             THEN /\ playing' = FALSE
                  /\ selectedStartBar' = 0
                  /\ startInputOffsetSec' = getBarStartSecOf(0, barStartSec)
                  /\ pausedInputOffsetSec' = getBarStartSecOf(0, barStartSec)
                  /\ UNCHANGED startContextSec
             ELSE UNCHANGED <<playing, selectedStartBar, posVars>>

\* source.onended of the source registered for track t
onended(t) ==
  /\ SourceAtEnd(t)
  /\ onendedHandler(t, activeSources[t].run)
  /\ UNCHANGED <<mixVars, graphVars, initialized, loading, bpm, durationSec,
                 playbackRunId, stoppedSources, barStartSec, clockVars, pending>>
  /\ Record(Call("onended", t, 0, FALSE))

\* the ended event of a source of track t that stopCurrentSources stopped: its
\* handler, if one is attached, belongs to a run below the current one
endedAfterStop(t) ==
  /\ stoppedSources[t].pending
  /\ stoppedSources' = [stoppedSources EXCEPT ![t] = NoEvent]
  /\ IF stoppedSources[t].handler
     THEN \E runId \in 0..(playbackRunId - 1) : onendedHandler(t, runId)
     ELSE UNCHANGED <<activeSources, endedTrackIds, playing, selectedStartBar, posVars>>
  /\ UNCHANGED <<mixVars, graphVars, initialized, loading, bpm, durationSec,
                 playbackRunId, barStartSec, clockVars, pending>>
  /\ Record(Call("endedAfterStop", t, 0, FALSE))

\* the output clock and the timers advance by d milliseconds, short of the
\* moment the next timer is due
Tick(d) ==
  /\ audioCtx = "running" \/ \E s \in Slots : pending[s].wait > 0
  /\ \A s \in Slots : pending[s].wait > 0 => d < pending[s].wait
  /\ d \in FineSteps => (now % MaxOver(CoarseSteps)) \div d < MaxFineTicks
  /\ d \in CoarseSteps => now \div d < MaxCoarseTicks
  /\ now' = IF audioCtx = "running" THEN now + d ELSE now
  /\ pending' = [s \in Slots |-> [pending[s] EXCEPT !.wait = Max2(0, @ - d)]]
  /\ UNCHANGED <<mixVars, graphVars, flagVars, bpm, durationSec, posVars, runVars,
                 barVars, ctxId, lastCall, analysis>>

\* a run left alone: the output clock advances by d milliseconds while a
\* registered source has not reached the end of its buffer
Advance(d) ==
  /\ audioCtx = "running"
  /\ \E t \in Tracks : activeSources[t].on /\ ~SourceAtEnd(t)
  /\ \A s \in Slots : pending[s].wait = 0
  /\ now' = now + d
  /\ UNCHANGED <<mixVars, graphVars, flagVars, bpm, durationSec, posVars, runVars,
                 barVars, ctxId, pending, lastCall, analysis>>

\* ---------------------------------------------------------------- specifications
\* no click analysis is stepped through
NoAnalysis == [stage |-> "none"]

\* the fields of the engine after its constructor
EngineConstructed ==
  /\ trackState = [t \in Tracks |->
                     [mute |-> FALSE, solo |-> FALSE, volume |-> VOLUME_ONE,
                      effectiveGain |-> initialVolume(t) * VOLUME_ONE]]
  /\ trackGainNodes = [t \in Tracks |-> NoNode]
  /\ audioCtx = "null"
  /\ masterGain = "null"
  /\ workletEnabled = FALSE
  /\ pitchBpm = 0
  /\ buffers = NoBuffers
  /\ initialized = FALSE
  /\ loading = FALSE
  /\ playing = FALSE
  /\ bpm = BASE_BPM
  /\ durationSec = 0
  /\ startContextSec = 0
  /\ startInputOffsetSec = 0
  /\ pausedInputOffsetSec = 0
  /\ playbackRunId = 0
  /\ endedTrackIds = {}
  /\ barStartSec = <<0>>
  /\ selectedStartBar = 0
  /\ activeSources = NoSources
  /\ stoppedSources = [t \in Tracks |-> NoEvent]
  /\ now = 0
  /\ ctxId = 0
  /\ pending = [s \in Slots |-> Idle]
  /\ lastCall = Call("new", "", 0, FALSE)

\* the engine after its constructor
Init == EngineConstructed /\ analysis = NoAnalysis

\* arguments the transport specification passes
TransportBpmArgs == {MAX_BPM + 1}
TransportBpmDeltas == {MAX_BPM}
BarArgs == {-3, 72, 90}
\* arguments of the bpm specification: integers far below, across and far above the range
BpmArgs == {-1000, 1000} \cup (MIN_BPM - 3)..(MAX_BPM + 3)
BpmDeltas == {-100, -BPM_STEP, -1, 1, BPM_STEP, 3, 100}
\* arguments of the mix specification, hundredths
VolumeArgs == {-50, 50, 150}
\* the load outcome of the transport specification
LongLoad == [t \in Tracks |-> IF t = "click" THEN MsUnits(5500) ELSE MsUnits(6000)]

\* a continuation that runs in the microtask right after the load completes
Microtask == \E s \in Slots : PlayAfterInit(s)

\* a command, a callback or a timer runs only when no microtask is queued
Task(A) == ~MicrotaskPending /\ A

\* the transport on a supporting browser: every command, continuation,
\* completion callback and the clock
Next ==
  \/ Microtask
  \/ Task(init({"running"}))
  \/ Task(play({"running"}))
  \/ Task(\E s \in Slots, owner \in {"init", "play"} : InitAfterWorklet(s, owner, TRUE))
  \/ Task(\E s \in Slots, owner \in {"init", "play"} : InitLoaded(s, owner, LongLoad))
  \/ Task(\E s \in Slots : SeekResumed(s))
  \/ Task(pause)
  \/ Task(stop)
  \/ Task(\E n \in TransportBpmArgs : setBpm(n))
  \/ Task(\E delta \in TransportBpmDeltas : changeBpm(delta))
  \/ Task(resetBpm)
  \/ Task(\E bar \in BarArgs : setStartBar(bar))
  \/ Task(\E t \in Tracks : onended(t))
  \/ Task(\E d \in FineSteps \cup CoarseSteps : Tick(d))

Spec == Init /\ [][Next]_vars


\* the mixer: every mix command on every track and on an unknown one, before
\* and after the gain nodes exist
MixTracks == Tracks \cup {UnknownTrack}

NextMix ==
  \/ \E trackId \in MixTracks : toggleMute(trackId)
  \/ \E trackId \in MixTracks : toggleSolo(trackId)
  \/ \E trackId \in MixTracks, volume \in VolumeArgs : setVolume(trackId, volume)
  \/ init({"running"})
  \/ \E s \in Slots : InitAfterWorklet(s, "init", TRUE)

SpecMix == Init /\ [][NextMix]_vars

\* the tempo commands with arguments of every kind, in every transport state
\* (uninitialized, initializing, ready, playing, paused), the clock standing
NextBpm ==
  \/ Microtask
  \/ Task(\E n \in BpmArgs : setBpm(n))
  \/ Task(\E delta \in BpmDeltas : changeBpm(delta))
  \/ Task(resetBpm)
  \/ Task(play({"running"}))
  \/ Task(\E s \in Slots : InitAfterWorklet(s, "play", TRUE))
  \/ Task(\E s \in Slots : InitLoaded(s, "play", LongLoad))
  \/ Task(pause)

SpecBpm == Init /\ [][NextBpm]_vars

\* superseded runs: the transport commands that stop a run, the end callbacks
\* of the registered sources and the ended events of the stopped ones
NextStale ==
  \/ Microtask
  \/ Task(play({"running"}))
  \/ Task(\E s \in Slots : InitAfterWorklet(s, "play", TRUE))
  \/ Task(\E s \in Slots : InitLoaded(s, "play", LongLoad))
  \/ Task(\E s \in Slots : SeekResumed(s))
  \/ Task(pause)
  \/ Task(stop)
  \/ Task(\E bar \in BarArgs : setStartBar(bar))
  \/ Task(\E t \in Tracks : onended(t))
  \/ Task(\E t \in Tracks : endedAfterStop(t))
  \/ Task(\E d \in FineSteps \cup CoarseSteps : Tick(d))

SpecStale == Init /\ [][NextStale]_vars

\* the life cycle: initialization that succeeds or fails at each of its steps,
\* destroy() at any moment, and the transport commands around them
NextLife ==
  \/ Microtask
  \/ Task(init({"running"}))
  \/ Task(play({"running"}))
  \/ Task(\E op \in {"init", "play"} : InitSetupThrows(op))
  \/ Task(\E s \in Slots, owner \in {"init", "play"}, enabled \in BOOLEAN :
            InitAfterWorklet(s, owner, enabled))
  \/ Task(\E s \in Slots, owner \in {"init", "play"} : InitLoadFailed(s, owner))
  \/ Task(\E s \in Slots, owner \in {"init", "play"}, bufs \in LoadOutcomes :
            InitLoaded(s, owner, bufs))
  \/ Task(\E s \in Slots : SeekResumed(s))
  \/ Task(pause)
  \/ Task(stop)
  \/ Task(destroy)
  \/ Task(\E bar \in BarArgs : setStartBar(bar))
  \/ Task(\E t \in Tracks : onended(t))
  \/ Task(\E d \in FineSteps \cup CoarseSteps : Tick(d))

SpecLife == Init /\ [][NextLife]_vars

\* the states a new AudioContext can start in
CtxStates == {"running", "suspended"}

\* initialization by init() and by play(): every step of it succeeds or fails,
\* the context starts running or suspended, and commands arrive meanwhile
NextInit ==
  \/ Microtask
  \/ Task(init(CtxStates))
  \/ Task(play(CtxStates))
  \/ Task(\E op \in {"init", "play"} : InitSetupThrows(op))
  \/ Task(\E s \in Slots, owner \in {"init", "play"}, enabled \in BOOLEAN :
            InitAfterWorklet(s, owner, enabled))
  \/ Task(\E s \in Slots, owner \in {"init", "play"} : InitLoadFailed(s, owner))
  \/ Task(\E s \in Slots, owner \in {"init", "play"}, bufs \in LoadOutcomes :
            InitLoaded(s, owner, bufs))
  \/ Task(\E s \in Slots : PlayResumed(s))
  \/ Task(pause)
  \/ Task(stop)
  \/ Task(\E bar \in BarArgs : setStartBar(bar))
  \/ Task(\E s \in Slots : SeekResumed(s))
  \/ Task(\E t \in Tracks : onended(t))
  \/ Task(\E d \in FineSteps \cup CoarseSteps : Tick(d))

SpecInit == Init /\ [][NextInit]_vars

\* a load in which the violin is shorter than the start of the second bar
ShortViolinLoad ==
  [t \in Tracks |-> CASE t = "violin" -> MsUnits(2500)
                       [] t = "click" -> MsUnits(5500)
                       [] OTHER -> MsUnits(6000)]

\* a command of the listener, issued only while no run is playing
Command(A) == ~MicrotaskPending /\ ~playing /\ A

\* runs left alone: commands come only between runs; during a run the clock
\* advances and the sources end
NextRun ==
  \/ Microtask
  \/ Command(play({"running"}))
  \/ Task(\E s \in Slots : InitAfterWorklet(s, "play", TRUE))
  \/ Task(\E s \in Slots : InitLoaded(s, "play", ShortViolinLoad))
  \/ Command(\E bar \in BarArgs : setStartBar(bar))
  \/ Command(\E n \in TransportBpmArgs : setBpm(n))
  \/ Task(\E t \in Tracks : onended(t))
  \/ Task(\E d \in CoarseSteps : Advance(d))

\* the clock of a running context always advances, and a source that has
\* reached the end of its buffer ends
SpecRun ==
  /\ Init /\ [][NextRun]_vars
  /\ WF_vars(Task(\E d \in CoarseSteps : Advance(d)))
  /\ \A t \in Tracks : WF_vars(Task(onended(t)))

\* ================================================================ properties
MixOps == {"toggleMute", "toggleSolo", "setVolume"}
AnySolo == \E u \in Tracks : trackState[u].solo
FullGain(t) == baseVolume(t) * trackState[t].volume

\* C1: in every reachable state, after any sequence of toggleMute, toggleSolo
\* and setVolume calls, each track's effectiveGain is baseVolume * volume when
\* (no track is soloed or this track is soloed) and the track is not muted, and
\* 0 otherwise; so a muted track has gain 0 even when soloed, and the gain of
\* every track follows the solo flags of all tracks.
C1_EffectiveGain ==
  \A t \in Tracks :
    trackState[t].effectiveGain =
      IF (~AnySolo \/ trackState[t].solo) /\ ~trackState[t].mute
      THEN FullGain(t) ELSE 0

\* C1, its case: after a mix call a track that is soloed and muted is silent,
\* and so is an unmuted, unsoloed track at a positive volume
C1_Witness ==
  /\ lastCall.op \in MixOps
  /\ \E t \in Tracks :
       /\ trackState[t].solo /\ trackState[t].mute /\ trackState[t].volume > 0
       /\ trackState[t].effectiveGain = 0
  /\ \E u \in Tracks :
       /\ ~trackState[u].solo /\ ~trackState[u].mute /\ trackState[u].volume > 0
       /\ trackState[u].effectiveGain = 0

\* C2, as stated: when toggleSolo(A) turns solo on while no track is soloed,
\* effectiveGain(A) = baseVolume(A) * volume(A) and every other track's is 0.
C2_SoloAlone_AsStated ==
  [][\A a \in Tracks :
       toggleSolo(a) /\ ~AnySolo =>
         /\ trackState'[a].effectiveGain = baseVolume(a) * trackState'[a].volume
         /\ \A u \in Tracks \ {a} : trackState'[u].effectiveGain = 0]_vars

\* C2, amended: when toggleSolo(A) turns solo on while no track is soloed,
\* every other track's effectiveGain is 0, and effectiveGain(A) is
\* baseVolume(A) * volume(A) if A is not muted and 0 if A is muted.
C2_SoloAlone ==
  [][\A a \in Tracks :
       toggleSolo(a) /\ ~AnySolo =>
         /\ trackState'[a].effectiveGain =
              IF trackState[a].mute THEN 0
              ELSE baseVolume(a) * trackState'[a].volume
         /\ \A u \in Tracks \ {a} : trackState'[u].effectiveGain = 0]_vars

\* C2, its case: toggleSolo has just soloed one unmuted track, which sounds at
\* its full gain, while another unmuted track at a positive volume is silent
C2_Witness ==
  /\ lastCall.op = "toggleSolo"
  /\ \E a \in Tracks :
       /\ lastCall.track = a
       /\ trackState[a].solo /\ ~trackState[a].mute
       /\ \A u \in Tracks \ {a} : ~trackState[u].solo
       /\ trackState[a].effectiveGain = FullGain(a) /\ FullGain(a) > 0
       /\ \E u \in Tracks \ {a} :
            ~trackState[u].mute /\ FullGain(u) > 0 /\ trackState[u].effectiveGain = 0

\* the step grid of the tempo
BpmGrid == {b \in MIN_BPM..MAX_BPM : (b - MIN_BPM) % BPM_STEP = 0}

ClampedAndQuantized(x, r) ==
  /\ r \in BpmGrid
  /\ 2 * Abs(r - clamp(x, MIN_BPM, MAX_BPM)) <= BPM_STEP

\* C4: changeBpm(delta) sets bpm to (current bpm + delta) clamped to [60, 100]
\* and quantized to the step 2, and it leaves bpm alone only when that value is
\* the current bpm; from 80 changeBpm(+2) gives 82, from 98 changeBpm(+100)
\* gives 100, from 60 changeBpm(-100) gives 60.
C4_ChangeBpm ==
  /\ [][\A delta \in BpmDeltas :
          changeBpm(delta) =>
            /\ ClampedAndQuantized(bpm + delta, bpm')
            /\ bpm = 80 /\ delta = 2 => bpm' = 82
            /\ bpm = 98 /\ delta = 100 => bpm' = 100]_vars
  /\ [](\A delta \in BpmDeltas :
          /\ normalizeBpm(bpm + delta) = bpm => ClampedAndQuantized(bpm + delta, bpm)
          /\ bpm = 60 /\ delta = -100 => normalizeBpm(bpm + delta) = 60)

\* C4, its case: changeBpm(+100) has just raised the tempo to the upper end of
\* the range while playing
C4_Witness ==
  /\ lastCall.op = "changeBpm"
  /\ lastCall.num = 100
  /\ playing
  /\ bpm = MAX_BPM

\* a step of one of the tempo commands of the transport specification
SetBpmStep ==
  \/ \E n \in TransportBpmArgs : setBpm(n)
  \/ \E delta \in TransportBpmDeltas : changeBpm(delta)
  \/ resetBpm

ActiveTrackIds == {t \in Tracks : activeSources[t].on}

\* C5: when a tempo command changes bpm while Playing, currentInputSec read at
\* the same output-clock instant is equal before and after the call (the start
\* reference is re-anchored to the captured position), and the tempo ratio,
\* which the active sources and the pitch correction are set to, is the new
\* bpm / BASE_BPM: MAX_BPM / BASE_BPM after setBpm(MAX_BPM + 1) and
\* changeBpm(+MAX_BPM), 1 after resetBpm().
C5_BpmChangeKeepsPosition ==
  [][SetBpmStep /\ playing /\ bpm' # bpm =>
       /\ now' = now
       /\ getCurrentInputSec' = getCurrentInputSec
       /\ startContextSec' = now
       /\ startInputOffsetSec' = getCurrentInputSec
       /\ getTempoRatio' = IF resetBpm THEN BASE_BPM ELSE MAX_BPM
       /\ \A t \in ActiveTrackIds : activeSources'[t].rate = getTempoRatio'
       /\ workletEnabled => pitchBpm' = getTempoRatio']_vars

\* C5, its case: a tempo command has just raised the tempo in the middle of a
\* run, the start reference is the instant of the call and lies after the
\* start of the sources, at a position inside the material
C5_Witness ==
  /\ lastCall.op \in {"setBpm", "changeBpm"}
  /\ playing
  /\ bpm = MAX_BPM
  /\ startContextSec = now
  /\ \E t \in ActiveTrackIds :
       /\ activeSources[t].at < startContextSec
       /\ activeSources[t].off < startInputOffsetSec
       /\ activeSources[t].rate = MAX_BPM
  /\ startInputOffsetSec < durationSec

\* C6: a tempo command while Playing does not stop or restart playback: the
\* engine stays Playing, the set of active sources, their start and their run
\* are unchanged and so is the run identifier, so the completion callbacks of
\* the current run stay valid.
C6_BpmChangeKeepsRun ==
  [][SetBpmStep /\ playing =>
       /\ playing'
       /\ playbackRunId' = playbackRunId
       /\ endedTrackIds' = endedTrackIds
       /\ ActiveTrackIds' = ActiveTrackIds
       /\ \A t \in ActiveTrackIds :
            /\ activeSources'[t].run = activeSources[t].run
            /\ activeSources'[t].at = activeSources[t].at
            /\ activeSources'[t].off = activeSources[t].off
            /\ activeSources'[t].run = playbackRunId']_vars

\* C6, its case: a tempo command has just changed the tempo of a run whose
\* sources are all still registered under the current run identifier
C6_Witness ==
  /\ lastCall.op \in {"setBpm", "changeBpm", "resetBpm"}
  /\ playing
  /\ ActiveTrackIds = Tracks
  /\ \A t \in Tracks : activeSources[t].run = playbackRunId /\ activeSources[t].rate = bpm
  /\ startContextSec = now
  /\ \E t \in Tracks : activeSources[t].at # startContextSec

\* the calls and continuations of play() that start a run
PlayOps == {"play", "play.body", "play.resume"}

\* C7: when pause() follows play() with nothing but the clock in between, the
\* stored paused offset equals the input offset the run was started at if the
\* output clock has not passed the scheduled start, and in general differs
\* from it by at most (output time elapsed since the scheduled start) x tempo
\* ratio.
C7_PauseAfterPlay ==
  [][pause /\ playing /\ lastCall.op \in PlayOps =>
       LET elapsed == Max2(0, now - startContextSec)
       IN /\ now <= startContextSec => pausedInputOffsetSec' = startInputOffsetSec
          /\ Abs(pausedInputOffsetSec' - startInputOffsetSec) <= elapsed * getTempoRatio
          /\ \A t \in ActiveTrackIds :
               /\ activeSources[t].at = startContextSec
               /\ activeSources[t].off = startInputOffsetSec]_vars

\* C7, its case: pause() was called before the clock reached the scheduled
\* start of a run that play() started inside the material, and stored the
\* offset of that start
C7_Witness ==
  /\ lastCall.op = "pause"
  /\ ~playing
  /\ now < startContextSec
  /\ pausedInputOffsetSec > 0
  /\ pausedInputOffsetSec = startInputOffsetSec
  /\ pausedInputOffsetSec = getBarStartSec(1)

\* a step of play(), or of its continuation after its own init(), that starts a run
PlayStartsRun == (play({"running"}) \/ Microtask) /\ ~playing /\ playing'

\* the previous run fully completed: its last completion callback reset the engine
RunCompleted == lastCall.op = "onended" /\ ~playing

\* C8, as stated: play() starts the new run at the stored paused offset, so
\* pause() followed by play() resumes at exactly the input position pause()
\* captured; when the previous run fully completed, play() starts at the
\* selected bar's start.
C8_PlayResumes_AsStated ==
  [][PlayStartsRun =>
       /\ startInputOffsetSec' = pausedInputOffsetSec
       /\ \A t \in ActiveTrackIds' : activeSources'[t].off = pausedInputOffsetSec
       /\ RunCompleted => startInputOffsetSec' = getBarStartSec(selectedStartBar)]_vars

\* C8, amended: play() starts the new run at the stored paused offset when
\* that offset lies before the end of the material, so pause() followed by
\* play() resumes at the position pause() captured unless that position is the
\* end; when the stored offset is the end (durationSec), and when the previous
\* run fully completed, play() starts at the selected bar's start.
C8_PlayResumes ==
  [][PlayStartsRun =>
       LET expected == IF pausedInputOffsetSec < durationSec
                       THEN pausedInputOffsetSec
                       ELSE getBarStartSec(selectedStartBar)
       IN /\ startInputOffsetSec' = expected
          /\ \A t \in ActiveTrackIds' : activeSources'[t].off = expected
          /\ RunCompleted => startInputOffsetSec' = getBarStartSec(selectedStartBar)]_vars

\* C8, its case: play() has just resumed a run in the middle of a bar, after
\* earlier runs were paused
C8_Witness ==
  /\ lastCall.op = "play"
  /\ playing
  /\ playbackRunId >= 5
  /\ startInputOffsetSec > getBarStartSec(selectedStartBar)
  /\ pausedInputOffsetSec = startInputOffsetSec
  /\ \A t \in ActiveTrackIds : activeSources[t].off = startInputOffsetSec
  /\ startContextSec = now + PLAY_LOOKAHEAD

\* C9: stop() called in any state (uninitialized, initializing, ready, playing,
\* paused) leaves the engine not Playing with no active sources, the paused
\* and the start input offset at the start of bar 0, which is 0, the selected
\* start bar 0 and, when the output graph exists, the master gain at its
\* nominal target level.
C9_Stop ==
  [][stop =>
       /\ ~playing'
       /\ ActiveTrackIds' = {}
       /\ pausedInputOffsetSec' = 0 /\ startInputOffsetSec' = 0
       /\ getBarStartSec(0)' = 0
       /\ selectedStartBar' = 0
       /\ audioCtx # "null" => masterGain' = "target"
       /\ playbackRunId' # playbackRunId]_vars

\* C9, its case: stop() has just ended a run that was started away from bar 0
\* and the master gain is back at its target
C9_Witness ==
  /\ lastCall.op = "stop"
  /\ ~playing
  /\ ActiveTrackIds = {}
  /\ initialized
  /\ playbackRunId >= 3
  /\ startContextSec > 0
  /\ masterGain = "target"
  /\ pausedInputOffsetSec = 0 /\ selectedStartBar = 0

\* the position extrapolated from the start reference, held within the material
ExtrapolatedPosition ==
  Min2(durationSec,
       Max2(0, startInputOffsetSec + Max2(0, now - startContextSec) * getTempoRatio))

\* the bar containing offset sec: the last bar that starts at or before it
BarContaining(sec) ==
  LET started == {i \in 0..getMaxBar : barStartSec[i + 1] <= sec}
  IN IF started = {} THEN 0 ELSE CHOOSE i \in started : \A j \in started : j <= i

\* C10: pause() has an effect only from Playing: from Playing it leaves the
\* engine not Playing with no active sources, stores the position extrapolated
\* at the moment of the call, clamped to [0, durationSec], as the paused
\* offset, and sets the selected start bar to the bar containing that offset;
\* from any other state it changes no engine state.
C10_Pause ==
  [][pause =>
       IF playing
       THEN /\ ~playing'
            /\ ActiveTrackIds' = {}
            /\ pausedInputOffsetSec' = ExtrapolatedPosition
            /\ selectedStartBar' = BarContaining(ExtrapolatedPosition)
       ELSE UNCHANGED <<mixVars, transportVars>>]_vars

\* C10, its case: pause() has just stopped a run in the middle of a later bar
C10_Witness ==
  /\ lastCall.op = "pause"
  /\ ~playing
  /\ ActiveTrackIds = {}
  /\ selectedStartBar >= 1
  /\ pausedInputOffsetSec > getBarStartSec(selectedStartBar)
  /\ pausedInputOffsetSec < durationSec
  /\ now > startContextSec

\* C11: during a run the engine stays Playing until the end callbacks of all
\* tracks started in the run have fired (a track with no audio left at the
\* start offset counts as ended); the last callback leaves the engine not
\* Playing, at the start of bar 0 with bar 0 selected, and starts no source;
\* and when every started source ends and no command is issued, the engine
\* eventually leaves Playing.
C11_RunCompletes ==
  /\ [][\A t \in Tracks :
          onended(t) /\ playing =>
            LET rest == ActiveTrackIds \ {t}
            IN /\ ActiveTrackIds' = rest
               /\ playbackRunId' = playbackRunId
               /\ IF rest # {}
                  THEN playing' /\ UNCHANGED <<posVars, selectedStartBar>>
                  ELSE /\ ~playing'
                       /\ startInputOffsetSec' = getBarStartSec(0)
                       /\ pausedInputOffsetSec' = getBarStartSec(0)
                       /\ getBarStartSec(0) = 0
                       /\ selectedStartBar' = 0]_vars
  /\ [][\E d \in CoarseSteps : Advance(d) => playing' = playing]_vars
  /\ (playing ~> ~playing)

\* C11, its case: the last end callback of a run that started where the
\* violin had no audio left has just ended the run
C11_Witness ==
  /\ lastCall.op = "onended"
  /\ ~playing
  /\ endedTrackIds = Tracks
  /\ ActiveTrackIds = {}
  /\ selectedStartBar = 0 /\ pausedInputOffsetSec = 0 /\ startInputOffsetSec = 0
  /\ now > startContextSec
  /\ startContextSec > 0

\* C12: a completion callback of a superseded run is a no-op: the ended event
\* of a source that an earlier run left behind changes none of playing, the
\* position offsets, the selected bar, endedTrackIds, the run identifier and
\* the active sources of the newer run; and every handler that is still
\* attached belongs to a source of the current run.
C12_StaleCallback ==
  /\ [](\A t \in ActiveTrackIds : activeSources[t].run = playbackRunId)
  /\ [][\A t \in Tracks :
          endedAfterStop(t) =>
            UNCHANGED <<playing, posVars, selectedStartBar, endedTrackIds,
                        playbackRunId, activeSources>>]_vars

\* C12, its case: the ended event of a stopped source of a track has just
\* been dispatched while a newer run plays that track
C12_Witness ==
  /\ lastCall.op = "endedAfterStop"
  /\ playing
  /\ playbackRunId >= 4
  /\ activeSources[lastCall.track].on
  /\ activeSources[lastCall.track].run = playbackRunId
  /\ ~stoppedSources[lastCall.track].pending
  /\ ActiveTrackIds = Tracks

\* a step that registers a source: one that was not registered before, or one
\* of another run
RegistersSource ==
  \E t \in Tracks :
    /\ activeSources'[t].on
    /\ ~activeSources[t].on \/ activeSources'[t].run # activeSources[t].run

\* C13: playbackRunId never decreases; every stop(), every pause() from
\* Playing, the restart of every seek made while Playing and every start of a
\* run strictly increases it, and the sources a step registers carry the
\* increased identifier, so no two runs carry the same one.
C13_RunIdIncreases ==
  /\ [][playbackRunId' >= playbackRunId]_vars
  /\ [][stop => playbackRunId' > playbackRunId]_vars
  /\ [][pause /\ playing => playbackRunId' > playbackRunId]_vars
  /\ [][(\E s \in Slots : SeekResumed(s)) => playbackRunId' > playbackRunId]_vars
  /\ [][(\E bar \in BarArgs : setStartBar(bar)) => ~RegistersSource]_vars
  /\ [][RegistersSource =>
          /\ playbackRunId' > playbackRunId
          /\ \A t \in ActiveTrackIds' : activeSources'[t].run = playbackRunId'
          /\ \A t \in ActiveTrackIds : activeSources[t].run < playbackRunId']_vars

\* C13, its case: a run has just been started after two earlier increments by
\* a start and one by a stop, a pause or a disposal
C13_Witness ==
  /\ lastCall.op \in PlayOps
  /\ playing
  /\ playbackRunId >= 5
  /\ ActiveTrackIds = Tracks
  /\ \A t \in Tracks : activeSources[t].run = playbackRunId
  /\ \E t \in Tracks : stoppedSources[t].pending

\* C14: in every reachable state, when the engine is not Playing no source is
\* registered: stop, pause, seek, the completion of a run, the reset of a
\* start that finds no audio left, a failed init and destroy leave none behind.
C14_NoSourceUnlessPlaying == ~playing => ActiveTrackIds = {}

\* C14, its case: play() has just started at an offset where no track has
\* audio left, and reset the engine to bar 0 with no source registered
C14_Witness ==
  /\ lastCall.op \in PlayOps
  /\ initialized
  /\ ~playing
  /\ ActiveTrackIds = {}
  /\ endedTrackIds = Tracks
  /\ selectedStartBar = 0 /\ pausedInputOffsetSec = 0

\* C15: play() called while the engine is Playing, or while an initialization
\* is in progress, is a no-op: it starts no source, stops no source and
\* leaves the run identifier, the position offsets, the selected bar and every
\* other field of the engine unchanged.
C15_PlayNoOp ==
  [][play({"running"}) /\ (playing \/ loading) =>
       /\ UNCHANGED <<activeSources, stoppedSources, playbackRunId, endedTrackIds,
                      posVars, selectedStartBar>>
       /\ UNCHANGED <<mixVars, transportVars>>]_vars

\* C15, its case: in the middle of a run, after one track has ended, a play()
\* call is possible and leaves every field as it is
C15_Witness ==
  /\ playing
  /\ now > startContextSec
  /\ endedTrackIds # {}
  /\ ActiveTrackIds # {}
  /\ ENABLED (play({"running"}) /\ UNCHANGED <<mixVars, transportVars>>)

\* a track has audio left at the offset play() resolves
AudioLeftAtPlayOffset == \E t \in Tracks : clampInputOffset(playResolvedOffset) < buffers[t]

\* a step in which an initialization that play() runs fails
PlayInitFails ==
  \/ InitSetupThrows("play")
  \/ \E s \in Slots : InitLoadFailed(s, "play")
  \/ \E s \in Slots : InitAfterWorklet(s, "play", FALSE) /\ audioCtx = "null"

\* C16: play() on an Uninitialized engine first runs init(); when the
\* initialization succeeds the same call goes on and starts the playback (at
\* once on a running context, after resume() on a suspended one, wherever a
\* track has audio left); when it fails, play() throws the error, starts no
\* source and leaves the engine Uninitialized and not Playing.
C16_PlayInitializes ==
  /\ [][play(CtxStates) /\ ~initialized /\ ~loading /\ ~lastCall'.threw =>
          /\ loading' /\ ~initialized' /\ ~playing'
          /\ audioCtx' # "null"
          /\ ActiveTrackIds' = {}
          /\ \E s \in Slots : pending'[s].pc = "play.worklet"]_vars
  /\ [][\A s \in Slots, bufs \in LoadOutcomes :
          InitLoaded(s, "play", bufs) =>
            initialized' /\ ~loading' /\ pending'[s].pc = "play.body"]_vars
  /\ [][\A s \in Slots :
          PlayAfterInit(s) =>
            /\ initialized
            /\ ~lastCall'.threw
            /\ audioCtx = "running" => playing' = AudioLeftAtPlayOffset
            /\ audioCtx = "running" /\ playing' => ActiveTrackIds' # {}
            /\ audioCtx = "suspended" => pending'[s].pc = "play.resume"]_vars
  /\ [][\A s \in Slots :
          PlayResumed(s) =>
            /\ ~lastCall'.threw
            /\ audioCtx' = "running"
            /\ playing' = AudioLeftAtPlayOffset]_vars
  /\ [][PlayInitFails =>
          /\ lastCall'.threw
          /\ ~initialized' /\ ~loading' /\ ~playing'
          /\ audioCtx' = "null"
          /\ ActiveTrackIds' = {}
          /\ buffers' = NoBuffers
          /\ \A s \in Slots : pending'[s].pc \notin {"play.body", "play.resume"}]_vars

\* C16, its case: a play() call on an Uninitialized engine has initialized it
\* on a suspended context and, after resume(), has started the first run
C16_Witness ==
  /\ lastCall.op = "play.resume"
  /\ initialized /\ playing
  /\ ActiveTrackIds = Tracks
  /\ playbackRunId = 2
  /\ ctxId = 1
  /\ pausedInputOffsetSec = 0

\* the suspended calls that are inside init()
InitSteps == {"init.worklet", "init.load", "play.worklet", "play.load"}
InitsInProgress == {s \in Slots : pending[s].pc \in InitSteps}

InitFails ==
  \/ \E op \in {"init", "play"} : InitSetupThrows(op)
  \/ \E s \in Slots, owner \in {"init", "play"} : InitLoadFailed(s, owner)

\* C18: when the graph setup or the load of a track fails during init(), the
\* error is thrown to the caller and the engine is rolled back to
\* Uninitialized: initialized, loading and playing false, no audio context,
\* no buffers, no gain nodes, durationSec 0, bar table [0], selected bar 0;
\* and from every Uninitialized state an init() call starts a fresh
\* initialization, which can succeed.
C18_InitFailureRollsBack ==
  /\ [][InitFails =>
          /\ lastCall'.threw
          /\ ~initialized' /\ ~loading' /\ ~playing'
          /\ audioCtx' = "null" /\ masterGain' = "null"
          /\ buffers' = NoBuffers
          /\ \A t \in Tracks : ~trackGainNodes'[t].has
          /\ durationSec' = 0
          /\ barStartSec' = <<0>>
          /\ selectedStartBar' = 0
          /\ pausedInputOffsetSec' = 0 /\ startInputOffsetSec' = 0
          /\ InitsInProgress' = {}]_vars
  /\ [](~initialized /\ ~loading =>
          ENABLED (init(CtxStates) /\ loading' /\ ctxId' = ctxId + 1
                   /\ audioCtx' # "null" /\ InitsInProgress' # {}))

\* C18, its case: after a load that failed, a later init() has created a second
\* audio context and has completed: the buffers and the bar table are loaded
C18_Witness ==
  /\ lastCall.op = "init.load"
  /\ ~lastCall.threw
  /\ ctxId = 2
  /\ initialized /\ ~loading
  /\ audioCtx # "null"
  /\ \A t \in Tracks : buffers[t] > 0 /\ trackGainNodes[t].has
  /\ Len(barStartSec) = 3

\* ---------------------------------------------------------------- bar selection
\* Math.round of a number given in halves: the nearest integer, a half goes up
MathRound(halves) == (halves + 1) \div 2

\* setStartBar arguments in halves: below the first bar, on bars, inside the
\* gap between 72 and 102 on both sides of its middle, and above the last bar
BarRequests == {-7, 0, 71, 143, 144, 173, 175, 180, 204, 400}

\* a load whose click track ends before the second bar does: the bar table
\* gets fewer entries than the pattern has display bars
ShortClickLoad == [t \in Tracks |-> IF t = "click" THEN MsUnits(2500) ELSE MsUnits(6000)]
BarLoads == LoadOutcomes \cup {ShortClickLoad}

\* bar selection: initialization with each load, setStartBar with each
\* request, paused and playing, between the other transport commands
NextBars ==
  \/ Microtask
  \/ Task(init({"running"}))
  \/ Task(play({"running"}))
  \/ Task(\E s \in Slots, owner \in {"init", "play"} : InitAfterWorklet(s, owner, TRUE))
  \/ Task(\E s \in Slots, owner \in {"init", "play"}, bufs \in BarLoads :
            InitLoaded(s, owner, bufs))
  \/ Task(pause)
  \/ Task(stop)
  \/ Task(\E n \in TransportBpmArgs : setBpm(n))
  \/ Task(\E n \in BarRequests : setStartBar(MathRound(n)))
  \/ Task(\E s \in Slots : SeekResumed(s))

SpecBars == Init /\ [][NextBars]_vars

\* indexes of the selectable bars: display bars that have a start time
SelectableIndexes == {i \in 0..(Len(displayScoreBars) - 1) : i + 1 <= Len(barStartSec)}
LastSelectable == CHOOSE i \in SelectableIndexes : \A j \in SelectableIndexes : j <= i

\* index is the selectable bar nearest to display bar r, clamped at both ends
NearestSelectable(index, r) ==
  /\ index \in SelectableIndexes
  /\ \A i \in SelectableIndexes :
       Abs(displayScoreBars[index + 1] - r) <= Abs(displayScoreBars[i + 1] - r)
  /\ r < displayScoreBars[1] => index = 0
  /\ r > displayScoreBars[LastSelectable + 1] => index = LastSelectable

\* C19: setStartBar(n) selects the selectable display bar nearest to round(n);
\* a request below the first or above the last selectable bar resolves to the
\* first or the last selectable bar; the stored paused and start offsets
\* become the start time of that bar.
C19_SetStartBarNearest ==
  /\ [](\A n \in BarRequests :
          NearestSelectable(findNearestBarIndexByDisplayBar(MathRound(n)), MathRound(n)))
  /\ [][(\E n \in BarRequests : setStartBar(MathRound(n))) =>
          /\ lastCall'.op = "setStartBar"
          /\ NearestSelectable(selectedStartBar', lastCall'.num)
          /\ barStartSec' = barStartSec
          /\ pausedInputOffsetSec' = barStartSec[selectedStartBar' + 1]
          /\ startInputOffsetSec' = barStartSec[selectedStartBar' + 1]]_vars

\* C19, its case: with a bar table of two entries, setStartBar(200) has
\* selected the last selectable bar, display bar 72, and stored its start
C19_Witness ==
  /\ lastCall.op = "setStartBar"
  /\ lastCall.num = 200
  /\ initialized
  /\ Len(barStartSec) = 2
  /\ displayScoreBars[selectedStartBar + 1] = 72
  /\ pausedInputOffsetSec = barStartSec[2]
  /\ pausedInputOffsetSec > 0

\* AudioEngine.getState: currentBar of the snapshot
currentBar == getDisplayBarByIndex(findBarByInputSec(getCurrentInputSec))

\* some track that can be started still has audio at the selected bar's start
AudioLeftAtSelectedBar ==
  \E t \in Tracks : trackGainNodes[t].has /\ barStartSec[selectedStartBar + 1] < buffers[t]

\* the run starts at the start of the bar that was selected before the step
RunStartsAtSelectedBar ==
  /\ playing'
  /\ selectedStartBar' = selectedStartBar
  /\ startInputOffsetSec' = barStartSec[selectedStartBar + 1]
  /\ startContextSec' = now + PLAY_LOOKAHEAD
  /\ \A t \in Tracks :
       activeSources'[t].on => activeSources'[t].off = barStartSec[selectedStartBar + 1]
  /\ currentBar' = displayScoreBars[selectedStartBar + 1]

\* C20: after setStartBar(n) on an initialized engine that is not playing, the
\* next play() starts the run at the start time of the selected bar, and the
\* snapshot's currentBar is the selected display bar at the start of the run,
\* provided some track still has audio at that offset; this holds right after
\* setStartBar and as long as the stored offset is still that bar's start.
C20_PlayStartsAtSelectedBar ==
  /\ [][/\ play({"running"})
        /\ lastCall.op = "setStartBar"
        /\ initialized /\ ~playing
        /\ AudioLeftAtSelectedBar
        => RunStartsAtSelectedBar]_vars
  /\ [][/\ play({"running"})
        /\ initialized /\ ~loading /\ ~playing
        /\ pausedInputOffsetSec = barStartSec[selectedStartBar + 1]
        /\ AudioLeftAtSelectedBar
        => RunStartsAtSelectedBar]_vars
  /\ [](lastCall.op = "setStartBar" /\ initialized /\ ~playing =>
          /\ ~loading /\ audioCtx = "running"
          /\ pausedInputOffsetSec = barStartSec[selectedStartBar + 1])

\* C20, its case: play() has started a run at the start of display bar 102,
\* the bar selected across the gap; no time has passed since the start
C20_Witness ==
  /\ lastCall.op = "play"
  /\ playing
  /\ selectedStartBar = 2
  /\ startInputOffsetSec = barStartSec[3]
  /\ startInputOffsetSec > 0
  /\ startContextSec = now + PLAY_LOOKAHEAD
  /\ currentBar = 102
  /\ \E t \in Tracks : activeSources[t].on /\ activeSources[t].off = barStartSec[3]

\* some track that can be started still has audio at input offset off
AudioLeftAt(off) ==
  \E t \in Tracks : buffers[t] > 0 /\ trackGainNodes[t].has /\ clampInputOffset(off) < buffers[t]

\* the step has stopped every registered source and has started a new run at
\* input offset off, scheduled SEEK_LOOKAHEAD after the new clock value
ReanchoredAt(off) ==
  /\ playing'
  /\ playbackRunId' > playbackRunId
  /\ ActiveTrackIds' # {}
  /\ \A t \in ActiveTrackIds' :
       /\ activeSources'[t].run = playbackRunId'
       /\ activeSources'[t].run > playbackRunId
       /\ activeSources'[t].off = off
       /\ activeSources'[t].at = now' + SEEK_LOOKAHEAD
  /\ \A t \in ActiveTrackIds : stoppedSources'[t].pending /\ ~stoppedSources'[t].handler
  /\ startInputOffsetSec' = off
  /\ startContextSec' = now' + SEEK_LOOKAHEAD

\* the step has stopped every registered source and has left the engine not
\* playing at bar 0
StoppedAtBarZero ==
  /\ ~playing'
  /\ playbackRunId' > playbackRunId
  /\ ActiveTrackIds' = {}
  /\ \A t \in ActiveTrackIds : stoppedSources'[t].pending /\ ~stoppedSources'[t].handler
  /\ selectedStartBar' = 0
  /\ startInputOffsetSec' = 0 /\ pausedInputOffsetSec' = 0

\* setStartBar(), the call made while playing: nothing of the run is touched
SeekCallKeepsRun ==
  playing /\ (\E bar \in BarArgs : setStartBar(bar)) =>
    /\ activeSources' = activeSources
    /\ playbackRunId' = playbackRunId
    /\ startContextSec' = startContextSec
    /\ \E s \in Slots : pending'[s].pc = "seek.fade" /\ pending'[s].off = startInputOffsetSec'

\* C21, as stated: setStartBar(n) while playing always re-anchors: when it
\* completes, every source of the previous run has been stopped, the run
\* identifier has increased, and the engine is playing a new run whose sources
\* all start at the new bar's offset with startInputOffsetSec equal to that
\* offset; the old run's sources are never adjusted in place.
C21_SeekReanchors_AsStated ==
  /\ [][SeekCallKeepsRun]_vars
  /\ [][\A s \in Slots : SeekResumed(s) => ReanchoredAt(pending[s].off)]_vars

\* C21, amended: as stated when some track still has audio at the new bar's
\* offset; when the new bar starts at the end of every buffer, the completed
\* call has stopped every source of the previous run, has increased the run
\* identifier and has left the engine not playing at bar 0.
C21_SeekReanchors ==
  /\ [][SeekCallKeepsRun]_vars
  /\ [][\A s \in Slots : SeekResumed(s) =>
          IF AudioLeftAt(pending[s].off)
          THEN ReanchoredAt(pending[s].off)
          ELSE StoppedAtBarZero]_vars

\* C21, its case: setStartBar() called while playing has completed after time
\* had passed in the run: the new run starts at the start of bar 72
C21_Witness ==
  /\ lastCall.op = "seek.fade"
  /\ ~lastCall.threw
  /\ playing
  /\ now > FADE_WAIT + PLAY_LOOKAHEAD
  /\ selectedStartBar = 1
  /\ startInputOffsetSec = barStartSec[2]
  /\ startInputOffsetSec > 0
  /\ startContextSec = now + SEEK_LOOKAHEAD
  /\ \A t \in ActiveTrackIds : activeSources[t].off = barStartSec[2]
  /\ \E t \in Tracks : stoppedSources[t].pending

\* a step of play(), of its continuation after its own init() or after
\* audioCtx.resume(), that has reached startSourcesAtOffset
PlayReachesStart ==
  /\ \/ play(CtxStates)
     \/ Microtask
     \/ \E s \in Slots : PlayResumed(s)
  /\ playbackRunId' # playbackRunId

\* C22: when no track has audio left at the offset play() resolves (the offset
\* is at or beyond the duration of every buffer), play() raises no error,
\* starts no source and leaves the engine not playing, with the position and
\* the selected bar reset to bar 0.
C22_PlayNothingLeft ==
  [][PlayReachesStart /\ ~AudioLeftAt(playResolvedOffset) =>
       /\ ~lastCall'.threw
       /\ ActiveTrackIds' = {}
       /\ ~playing'
       /\ selectedStartBar' = 0
       /\ pausedInputOffsetSec' = 0 /\ startInputOffsetSec' = 0
       /\ getCurrentInputSec' = 0
       /\ currentBar' = displayScoreBars[1]
       /\ initialized' /\ audioCtx' = "running"]_vars

\* C22, its case: play() was called with the last bar selected, a bar that
\* starts at the end of every buffer; it has returned with nothing started
\* and bar 0 selected
C22_Witness ==
  /\ lastCall.op = "play"
  /\ ~lastCall.threw
  /\ initialized /\ audioCtx = "running"
  /\ \A s \in Slots : pending[s].pc = "idle"
  /\ \A t \in Tracks : buffers[t] = barStartSec[Len(barStartSec)]
  /\ ~playing
  /\ ActiveTrackIds = {}
  /\ selectedStartBar = 0
  /\ pausedInputOffsetSec = 0

\* output-clock values at which the position is read: the start of the clock,
\* the present, and later moments up to far beyond the end of the material
ClockProbes == {0, now, now + 1, now + MaxOver(CoarseSteps), now + 100 * MaxOver(CoarseSteps)}

\* C23: in every reachable state and at every output-clock value the reported
\* currentInputSec lies in [0, durationSec], and is 0 while durationSec is 0,
\* whatever play, pause, stop, setBpm, setStartBar calls and completion
\* callbacks have occurred.
C23_PositionInRange ==
  \A clock \in ClockProbes :
    /\ getCurrentInputSecAt(clock) >= 0
    /\ getCurrentInputSecAt(clock) <= durationSec
    /\ durationSec = 0 => getCurrentInputSecAt(clock) = 0

\* C23, its case: a run is playing and the position extrapolated from its
\* start lies beyond the end of the material; the reported position is the end
C23_Witness ==
  /\ playing
  /\ now > startContextSec
  /\ startInputOffsetSec + (now - startContextSec) * getTempoRatio > durationSec
  /\ getCurrentInputSec = durationSec
  /\ durationSec > 0

\* C24: all sources of one run are started at one common scheduled output
\* time and one common input offset, each with playback rate bpm / BASE_BPM;
\* after a bpm change while playing the rate target of every active source is
\* the new bpm / BASE_BPM; no two active sources ever target different rates.
C24_CommonStartAndRate ==
  /\ [](\A t, u \in ActiveTrackIds :
          /\ activeSources[t].run = activeSources[u].run
          /\ activeSources[t].at = activeSources[u].at
          /\ activeSources[t].off = activeSources[u].off
          /\ activeSources[t].rate = activeSources[u].rate)
  /\ [](\A t \in ActiveTrackIds : activeSources[t].rate = getTempoRatio)
  /\ [][playbackRunId' # playbackRunId =>
          \A t \in ActiveTrackIds' :
            /\ activeSources'[t].run = playbackRunId'
            /\ activeSources'[t].at = startContextSec'
            /\ activeSources'[t].off = startInputOffsetSec'
            /\ activeSources'[t].rate = getTempoRatio']_vars
  /\ [][SetBpmStep /\ playing =>
          /\ ActiveTrackIds' = ActiveTrackIds
          /\ \A t \in ActiveTrackIds' :
               /\ activeSources'[t].rate = getTempoRatio'
               /\ activeSources'[t].run = activeSources[t].run
               /\ activeSources'[t].at = activeSources[t].at
               /\ activeSources'[t].off = activeSources[t].off]_vars

\* C24, its case: the bpm was changed while all tracks were playing in a run
\* started at another bpm; every source targets the new rate
C24_Witness ==
  /\ lastCall.op \in {"setBpm", "changeBpm", "resetBpm"}
  /\ playing
  /\ ActiveTrackIds = Tracks
  /\ bpm # BASE_BPM
  /\ now > startContextSec - 1
  /\ \A t \in Tracks : activeSources[t].rate = bpm /\ activeSources[t].at < now

\* ---------------------------------------------------------------- tempo
\* the tempo commands between the steps of an initialization, on browsers with
\* and without the worklet, and around the starts of runs
NextTempo ==
  \/ Microtask
  \/ Task(init({"running"}))
  \/ Task(play({"running"}))
  \/ Task(\E s \in Slots, owner \in {"init", "play"}, enabled \in BOOLEAN :
            InitAfterWorklet(s, owner, enabled))
  \/ Task(\E s \in Slots, owner \in {"init", "play"} : InitLoadFailed(s, owner))
  \/ Task(\E s \in Slots, owner \in {"init", "play"} : InitLoaded(s, owner, LongLoad))
  \/ Task(\E s \in Slots : SeekResumed(s))
  \/ Task(pause)
  \/ Task(stop)
  \/ Task(\E n \in TransportBpmArgs : setBpm(n))
  \/ Task(\E delta \in {-BPM_STEP} : changeBpm(delta))
  \/ Task(resetBpm)
  \/ Task(\E bar \in BarArgs : setStartBar(bar))

SpecTempo == Init /\ [][NextTempo]_vars

RECURSIVE InsertSorted(_, _)
InsertSorted(x, sorted) ==
  IF Len(sorted) = 0 THEN <<x>>
  ELSE IF x <= Head(sorted) THEN <<x>> \o sorted
  ELSE <<Head(sorted)>> \o InsertSorted(x, Tail(sorted))

RECURSIVE SortAscending(_)
SortAscending(values) ==
  IF Len(values) = 0 THEN <<>> ELSE InsertSorted(Head(values), SortAscending(Tail(values)))

\* AudioEngine.median; -1 stands for null
median(values) ==
  IF Len(values) = 0 THEN -1
  ELSE LET sorted == SortAscending(values)
           mid == Len(sorted) \div 2
       IN IF Len(sorted) % 2 = 0
          THEN (sorted[mid] + sorted[mid + 1]) \div 2
          ELSE sorted[mid + 1]

\* deriveBarStartsFromBeats: the beat-to-beat intervals between 0.2 s and 1.6 s
RECURSIVE PlausibleIntervals(_, _)
PlausibleIntervals(beatTimes, i) ==
  IF i > Len(beatTimes) THEN <<>>
  ELSE LET delta == beatTimes[i] - beatTimes[i - 1]
       IN (IF delta > MsUnits(200) /\ delta < MsUnits(1600) THEN <<delta>> ELSE <<>>)
          \o PlausibleIntervals(beatTimes, i + 1)

medianBeatSecOf(beatTimes) ==
  LET m == median(PlausibleIntervals(beatTimes, 2))
  IN IF m = -1 THEN SecUnits(60) \div BASE_BPM ELSE m

\* deriveBarStartsFromBeats: number of bars the dynamic program fits
fittedBarCountOf(beatCount, targetBarCount) ==
  Min2(targetBarCount, Max2(2, (beatCount - 1) \div 2 + 1))

\* deriveBarStartsFromBeats: the beat indexes (0-based) of the bar starts the
\* dynamic program can reach for the first bars bars: it starts at beat 0 and
\* consumes 2 or 4 beats per bar. Which of them wins depends on the strength
\* and brightness of the beats, that is on the samples of the recording:
\* every reachable one is a possible result of the backtrack
RECURSIVE BeatIndexStarts(_, _)
BeatIndexStarts(bars, beatCount) ==
  IF bars <= 1 THEN {<<0>>}
  ELSE UNION { { Append(c, c[Len(c)] + step) :
                   step \in {st \in {2, 4} : c[Len(c)] + st < beatCount} } :
               c \in BeatIndexStarts(bars - 1, beatCount) }

\* mutation of DedupLoop: the minimum gap is the one of the uniform-grid fallback
RECURSIVE DedupLoopAtFallbackGap(_, _, _)
DedupLoopAtFallbackGap(starts, i, deduped) ==
  IF i > Len(starts) THEN deduped
  ELSE DedupLoopAtFallbackGap(starts, i + 1,
         IF Len(deduped) = 0 \/ starts[i] - deduped[Len(deduped)] > MsUnits(40)
         THEN Append(deduped, starts[i]) ELSE deduped)

\* deriveBarStartsFromBeats: the de-duplication loop over starts from index i
RECURSIVE DedupLoop(_, _, _)
DedupLoop(starts, i, deduped) ==
  IF i > Len(starts) THEN deduped
  ELSE DedupLoop(starts, i + 1,
         IF Len(deduped) = 0 \/ starts[i] - deduped[Len(deduped)] > MsUnits(80)
         THEN Append(deduped, starts[i]) ELSE deduped)

\* deriveBarStartsFromBeats: the padding loop of a result shorter than the target
RECURSIVE PadLoop(_, _, _, _)
PadLoop(deduped, dur, fallbackBarSec, targetBarCount) ==
  IF Len(deduped) >= targetBarCount THEN deduped
  ELSE LET last == IF Len(deduped) > 0 THEN deduped[Len(deduped)] ELSE 0
           next == Min2(dur, last + fallbackBarSec)
       IN IF next <= last + MsUnits(50) THEN deduped
          ELSE PadLoop(Append(deduped, next), dur, fallbackBarSec, targetBarCount)

\* deriveBarStartsFromBeats from the backtracked beat indexes on
startsFromBeatIndexes(beatTimes, dur, targetBarCount, beatIndexStarts) ==
  LET starts == [bar \in 1..Len(beatIndexStarts) |->
                   IF bar = 1 THEN 0 ELSE beatTimes[beatIndexStarts[bar] + 1]]
      padded == PadLoop(DedupLoop(starts, 1, <<>>), dur,
                        medianBeatSecOf(beatTimes) * 4, targetBarCount)
  IN IF Len(padded) > targetBarCount THEN SubSeq(padded, 1, targetBarCount) ELSE padded

\* AudioEngine.deriveBarStartsFromBeats: the tables it can return
deriveBarStartsFromBeats(beatTimes, dur, targetBarCount) ==
  LET reachable == BeatIndexStarts(fittedBarCountOf(Len(beatTimes), targetBarCount),
                                   Len(beatTimes))
  IN IF reachable = {}
     THEN {buildFallbackBarStarts(dur, targetBarCount)}
     ELSE {startsFromBeatIndexes(beatTimes, dur, targetBarCount, c) : c \in reachable}

\* mutation of minBeatCount: two beats per bar are enough
minBeatCountPerBarOnly == Len(displayScoreBars) * 2

\* buildBarMapFromClick: the least number of beats the alignment is tried with
minBeatCount == Max2(24, Len(displayScoreBars) * 2)

\* AudioEngine.buildBarMapFromClick for a click buffer of duration dur in which
\* detectBeatPoints found the beats beatTimes: the tables it can install
buildBarMapFromBeats(dur, beatTimes) ==
  IF dur = 0 THEN {<<0>>}
  ELSE IF Len(beatTimes) < minBeatCount
  THEN {buildFallbackBarStarts(dur, Len(displayScoreBars))}
  ELSE {IF Len(starts) > 0 THEN starts
        ELSE buildFallbackBarStarts(dur, Len(displayScoreBars)) :
          starts \in deriveBarStartsFromBeats(beatTimes, dur, Len(displayScoreBars))}

\* init() resumed after await loadTrackBuffers(), with a click recording rec
\* (its duration and the beats detected in it) and the bar table bars installed
InitLoadedFromClick(s, owner, rec, bars) ==
  /\ pending[s].pc = owner \o ".load"
  /\ bars \in buildBarMapFromBeats(rec.dur, rec.beats)
  /\ buffers' = [t \in Tracks |-> rec.dur]
  /\ durationSec' = MaxOver({0} \cup {rec.dur})
  /\ barStartSec' = bars
  /\ selectedStartBar' = clampBarNumberOf(selectedStartBar, bars)
  /\ initialized' = TRUE
  /\ loading' = FALSE
  /\ pending' = [pending EXCEPT ![s] =
                   IF owner = "play" THEN Suspended("play.body", pending[s].ctx, 0, 0)
                   ELSE Idle]
  /\ UNCHANGED <<mixVars, audioCtx, masterGain, workletEnabled, pitchBpm, playing, bpm,
                 posVars, runVars, clockVars>>
  /\ Record(Call(owner \o ".load", "", 0, FALSE))

\* beats as detectBeatPoints returns them: the first at 0, the second after
\* first milliseconds, the others gap milliseconds apart
BeatGrid(n, first, gap) ==
  [i \in 1..n |-> IF i = 1 THEN 0 ELSE MsUnits(first + (i - 2) * gap)]

\* click recordings: enough beats for the alignment (a regular click, the
\* densest beats the detector lets through, exactly minBeatCount beats), one
\* beat too few, and short recordings that cap the uniform grid at, just
\* after and well after a bar start
ClickRecordings ==
  { [dur |-> MsUnits(18500), beats |-> BeatGrid(25, 750, 750)],
    [dur |-> MsUnits(6000), beats |-> BeatGrid(25, 142, 192)],
    [dur |-> MsUnits(6000), beats |-> BeatGrid(24, 240, 240)],
    [dur |-> MsUnits(17000), beats |-> BeatGrid(23, 750, 750)],
    [dur |-> MsUnits(5500), beats |-> BeatGrid(7, 750, 750)],
    [dur |-> MsUnits(5000), beats |-> <<0>>],
    [dur |-> MsUnits(4000), beats |-> BeatGrid(5, 750, 750)],
    [dur |-> MsUnits(3060), beats |-> BeatGrid(4, 750, 750)],
    [dur |-> MsUnits(3030), beats |-> BeatGrid(4, 750, 750)],
    [dur |-> MsUnits(2500), beats |-> BeatGrid(3, 750, 750)] }

\* every bar table the click recordings can lead to
InstallableBarMaps == UNION {buildBarMapFromBeats(rec.dur, rec.beats) : rec \in ClickRecordings}

\* the bar map: an initialization with each click recording and each table the
\* alignment can return for it, then bar selection and playback on that table
NextBarMap ==
  \/ Microtask
  \/ Task(init({"running"}))
  \/ Task(play({"running"}))
  \/ Task(\E s \in Slots, owner \in {"init", "play"} : InitAfterWorklet(s, owner, TRUE))
  \/ Task(\E s \in Slots, owner \in {"init", "play"}, rec \in ClickRecordings,
             bars \in InstallableBarMaps : InitLoadedFromClick(s, owner, rec, bars))
  \/ Task(pause)
  \/ Task(stop)
  \/ Task(\E bar \in BarArgs : setStartBar(bar))
  \/ Task(\E s \in Slots : SeekResumed(s))

SpecBarMap == Init /\ [][NextBarMap]_vars

\* beat lists denser than detectBeatPoints returns, for the de-duplication and
\* the padding of deriveBarStartsFromBeats: beats 3 ms and 30 ms apart
DenseRecordings ==
  { [dur |-> MsUnits(70), beats |-> BeatGrid(24, 3, 3)],
    [dur |-> MsUnits(6000), beats |-> BeatGrid(24, 3, 3)],
    [dur |-> MsUnits(750), beats |-> BeatGrid(24, 30, 30)],
    [dur |-> MsUnits(3100), beats |-> BeatGrid(30, 30, 30)] }

\* the tables deriveBarStartsFromBeats returns for the dense beat lists
DenseBarMaps ==
  UNION {deriveBarStartsFromBeats(rec.beats, rec.dur, Len(displayScoreBars)) :
           rec \in DenseRecordings}

\* bars is strictly increasing, starts with 0 and is no longer than the pattern
WellFormedBarMap(bars) ==
  /\ Len(bars) >= 1
  /\ bars[1] = 0
  /\ \A i \in 1..(Len(bars) - 1) : bars[i] < bars[i + 1]
  /\ Len(bars) <= Len(displayScoreBars)

\* C26: every bar-start table the engine installs (from the beat alignment,
\* from its padding step or from the uniform-grid fallback) is strictly
\* increasing, has first entry exactly 0 and has at most as many entries as
\* there are display bars.
C26_BarMapWellFormed ==
  /\ WellFormedBarMap(barStartSec)
  /\ \A bars \in DenseBarMaps : WellFormedBarMap(bars)

\* C26, its case: the table installed comes from the beat alignment of a
\* regular click: the second bar spans two beats, the first four
C26_Witness ==
  /\ initialized
  /\ lastCall.op = "init.load"
  /\ durationSec = MsUnits(18500)
  /\ barStartSec = <<0, MsUnits(3000), MsUnits(4500)>>

\* input positions the lookup is probed with: before the first entry, on every
\* entry, just before and just after it, at the end of the material and beyond
PositionProbes ==
  {-1, durationSec, durationSec + 1}
    \cup UNION {{barStartSec[i] - 1, barStartSec[i], barStartSec[i] + 1} :
                  i \in DOMAIN barStartSec}

\* the greatest index (0-based) whose bar start is at or before p, 0 when none is
GreatestBarAtOrBefore(p) ==
  LET at == {i \in 0..(Len(barStartSec) - 1) : barStartSec[i + 1] <= p}
  IN IF at = {} THEN 0 ELSE CHOOSE i \in at : \A j \in at : j <= i

\* strictly increasing tables of 2 to 9 bars, with bars of unequal length, for
\* the search loop alone
LongBarMaps == {[i \in 1..n |-> (i - 1) * (i + 2)] : n \in 2..9}

\* C27: for any input position p the bar lookup returns the greatest index i
\* with barStartSec[i] <= p, index 0 when p is before every entry; so looking
\* up barStartSec[i] itself returns i, for every index i of the table.
C27_BarLookup ==
  /\ \A p \in PositionProbes : findBarByInputSec(p) = GreatestBarAtOrBefore(p)
  /\ \A i \in 0..(Len(barStartSec) - 1) : findBarByInputSec(barStartSec[i + 1]) = i
  /\ \A bars \in LongBarMaps :
       /\ \A i \in 0..(Len(bars) - 1) :
            BinarySearchHigh(0, Len(bars) - 1, bars[i + 1], bars) = i
       /\ \A p \in 0..(bars[Len(bars)] + 1) :
            LET high == BinarySearchHigh(0, Len(bars) - 1, p, bars)
            IN /\ bars[high + 1] <= p
               /\ high + 2 \in DOMAIN bars => p < bars[high + 2]

\* C27, its case: a run was started at the start of the last bar of a table of
\* three bars and the lookup has selected that bar; one unit earlier it finds
\* the bar before
C27_Witness ==
  /\ playing
  /\ Len(barStartSec) = 3
  /\ startInputOffsetSec = barStartSec[3]
  /\ selectedStartBar = 2
  /\ findBarByInputSec(startInputOffsetSec) = 2
  /\ findBarByInputSec(startInputOffsetSec - 1) = 1

\* start of bar k (0-based) of the uniform grid: the expected durations of the
\* bars before it, accumulated from 0
RECURSIVE GridStart(_)
GridStart(k) ==
  IF k = 0 THEN 0
  ELSE GridStart(k - 1)
         + getExpectedBarDurationSec(k - 1, getBarBeatCount(k - 1), SecUnits(60) \div BASE_BPM)

\* bars is the uniform grid capped at dur: strictly increasing starts, each the
\* grid start of its bar or the cap, as many as there are display bars unless
\* the cap is reached before
IsUniformGrid(bars, dur) ==
  /\ Len(bars) >= 1
  /\ Len(bars) <= Len(displayScoreBars)
  /\ \A i \in DOMAIN bars : bars[i] = Min2(dur, GridStart(i - 1))
  /\ \A i \in 1..(Len(bars) - 1) : bars[i] < bars[i + 1]
  /\ GridStart(Len(displayScoreBars) - 1) <= dur => Len(bars) = Len(displayScoreBars)
  /\ Len(bars) < Len(displayScoreBars) => GridStart(Len(bars)) > dur

\* an initialization completes with a click recording of fewer beats than
\* max(24, 2 x targetBarCount)
LoadedWithFewBeats(rec) ==
  /\ Len(rec.beats) < Max2(24, 2 * Len(displayScoreBars))
  /\ \E s \in Slots, owner \in {"init", "play"}, bars \in InstallableBarMaps :
       InitLoadedFromClick(s, owner, rec, bars)

\* C28: when the click track yields fewer than max(24, 2 x targetBarCount)
\* beats, the installed bar table is the uniform grid: the starts accumulate
\* the expected duration of each bar from 0, capped at the click duration,
\* giving exactly targetBarCount strictly increasing starts, or fewer when
\* the cap is reached.
C28_FallbackGrid ==
  [][\A rec \in ClickRecordings :
       LoadedWithFewBeats(rec) => IsUniformGrid(barStartSec', rec.dur)]_vars

\* C28, its case: a click of 23 beats, one fewer than the alignment needs, has
\* been loaded; the table is the uniform grid of three bars
C28_Witness ==
  /\ initialized
  /\ lastCall.op = "init.load"
  /\ durationSec = MsUnits(17000)
  /\ barStartSec = <<0, MsUnits(3000), MsUnits(5000)>>

\* index (0-based) of display bar 72, the two-beat bar with tempo hint 60
Bar72 == indexOfDisplayBar(72)

\* the expected duration of bar 72 is 2.0 s whatever the fallback beat length,
\* and differs from the duration of four such beats and of four fallback beats
Bar72LastsTwoSeconds ==
  /\ Bar72 >= 0
  /\ getBarBeatCount(Bar72) = 2
  /\ \A fallbackBeatSec \in {MsUnits(192), MsUnits(240), SecUnits(60) \div BASE_BPM} :
       /\ getExpectedBarDurationSec(Bar72, getBarBeatCount(Bar72), fallbackBeatSec) = SecUnits(2)
       /\ getExpectedBarDurationSec(Bar72, getBarBeatCount(Bar72), fallbackBeatSec)
            # fallbackBeatSec * 4
       /\ getExpectedBarDurationSec(Bar72, getBarBeatCount(Bar72), fallbackBeatSec)
            # getExpectedBarDurationSec(Bar72, 4, fallbackBeatSec)

\* C29, as stated: for the pattern with display bar 72 configured as a two-beat
\* bar with tempo hint 60, the expected duration of that bar is exactly 2.0 s,
\* not the 4-beat default; in the uniform grid the bar following bar 72 starts
\* exactly 2.0 s after the start of bar 72.
C29_Bar72_AsStated ==
  /\ [](Bar72LastsTwoSeconds)
  /\ [][\A rec \in ClickRecordings :
          LoadedWithFewBeats(rec) /\ Len(barStartSec') >= Bar72 + 2 =>
            barStartSec'[Bar72 + 2] - barStartSec'[Bar72 + 1] = SecUnits(2)]_vars

\* C29, amended: the expected duration of bar 72 is exactly 2.0 s, not the
\* 4-beat default; in the uniform grid the bar following bar 72 starts exactly
\* 2.0 s after the start of bar 72 when the click track lasts at least that
\* long, and at the end of the click track otherwise.
C29_Bar72 ==
  /\ [](Bar72LastsTwoSeconds)
  /\ [][\A rec \in ClickRecordings :
          LoadedWithFewBeats(rec) /\ Len(barStartSec') >= Bar72 + 2 =>
            IF GridStart(Bar72) + SecUnits(2) <= rec.dur
            THEN barStartSec'[Bar72 + 2] - barStartSec'[Bar72 + 1] = SecUnits(2)
            ELSE /\ barStartSec'[Bar72 + 2] = rec.dur
                 /\ barStartSec'[Bar72 + 2] - barStartSec'[Bar72 + 1] < SecUnits(2)]_vars

\* C29, its case: the uniform grid was installed for a click that outlasts it;
\* the bar after display bar 72 starts two seconds after bar 72
C29_Witness ==
  /\ initialized
  /\ durationSec = MsUnits(5500)
  /\ displayScoreBars[Bar72 + 1] = 72
  /\ Len(barStartSec) = Bar72 + 2
  /\ barStartSec[Bar72 + 2] - barStartSec[Bar72 + 1] = SecUnits(2)
  /\ barStartSec[Bar72 + 1] = 4 * (SecUnits(60) \div BASE_BPM)

\* any two consecutive entries of bars are more than gap apart
MinimumGap(bars, gap) ==
  \A i \in 1..(Len(bars) - 1) : bars[i + 1] - bars[i] > gap

\* the bar starts the alignment reads off the beat list for a chain of beat
\* indexes, before the de-duplication
ChainStarts(beatTimes, c) ==
  [bar \in 1..Len(c) |-> IF bar = 1 THEN 0 ELSE beatTimes[c[bar] + 1]]

\* the chains of beat indexes the alignment can end with for a beat list
ChainsOf(beatTimes) ==
  BeatIndexStarts(fittedBarCountOf(Len(beatTimes), Len(displayScoreBars)),
                  Len(beatTimes))

\* the beat lists the alignment is probed with: the detector's and denser ones
AlignedRecordings ==
  {rec \in ClickRecordings \cup DenseRecordings : ChainsOf(rec.beats) # {}}

\* C30, as stated: in every bar-start table the engine installs, any two
\* consecutive entries are more than 80 ms apart, whichever path produced the
\* table.
C30_MinimumGap_AsStated == MinimumGap(barStartSec, MsUnits(80))

\* C30, amended: in every bar-start table the engine installs, any two
\* consecutive entries are more than 40 ms apart (the minimum gap of the
\* uniform-grid fallback); the entries the beat alignment keeps after its
\* de-duplication are more than 80 ms apart, and the tables it returns after
\* padding a short result have entries more than 50 ms apart.
C30_MinimumGap ==
  /\ MinimumGap(barStartSec, MsUnits(40))
  /\ \A rec \in AlignedRecordings :
       /\ \A c \in ChainsOf(rec.beats) :
            MinimumGap(DedupLoop(ChainStarts(rec.beats, c), 1, <<>>), MsUnits(80))
       /\ \A bars \in deriveBarStartsFromBeats(rec.beats, rec.dur, Len(displayScoreBars)) :
            MinimumGap(bars, MsUnits(50))
  /\ \A rec \in ClickRecordings :
       MinimumGap(buildFallbackBarStarts(rec.dur, Len(displayScoreBars)), MsUnits(40))

\* C30, its case: the uniform grid was installed for a click that ends 60 ms
\* after the second bar start, so the last two entries are 60 ms apart
C30_Witness ==
  /\ initialized
  /\ Len(barStartSec) = 3
  /\ barStartSec[3] - barStartSec[2] = MsUnits(60)
  /\ barStartSec[3] = durationSec
  /\ \E bars \in DenseBarMaps : Len(bars) = 2 /\ bars[2] - bars[1] = MsUnits(70)
  /\ \E rec \in DenseRecordings : \E c \in ChainsOf(rec.beats) :
       Len(DedupLoop(ChainStarts(rec.beats, c), 1, <<>>)) < Len(c)

\* what a tempo command leaves alone when the engine is not Playing: every
\* field but bpm and the pitch correction of the stretch node
SetBpmFrame ==
  UNCHANGED <<mixVars, audioCtx, masterGain, workletEnabled, buffers, flagVars,
              durationSec, posVars, runVars, barVars, clockVars, pending>>

\* the pitch correction follows the new bpm when the stretch node exists
PitchFollowsBpm ==
  pitchBpm' = IF workletEnabled /\ audioCtx # "null" THEN bpm' ELSE pitchBpm

\* C31: setBpm with a value that normalizes to the current bpm changes
\* nothing; setBpm while not Playing changes only bpm (and the stretch
\* parameter): playing stays false, the paused and start offsets, the selected
\* bar, the run identifier and the active sources are unchanged, and the next
\* play() starts its sources at the new bpm / BASE_BPM rate.
C31_SetBpmNotPlaying ==
  [][/\ \A n \in TransportBpmArgs :
          /\ setBpm(n) /\ normalizeBpm(n) = bpm => UNCHANGED vars
          /\ setBpm(n) /\ ~playing =>
               SetBpmFrame /\ ~playing' /\ bpm' = normalizeBpm(n) /\ PitchFollowsBpm
     /\ \A delta \in TransportBpmDeltas :
          /\ changeBpm(delta) /\ normalizeBpm(bpm + delta) = bpm => UNCHANGED vars
          /\ changeBpm(delta) /\ ~playing =>
               SetBpmFrame /\ ~playing' /\ bpm' = normalizeBpm(bpm + delta)
                 /\ PitchFollowsBpm
     /\ resetBpm /\ bpm = BASE_BPM => UNCHANGED vars
     /\ resetBpm /\ ~playing =>
          SetBpmFrame /\ ~playing' /\ bpm' = BASE_BPM /\ PitchFollowsBpm
     /\ PlayStartsRun =>
          /\ bpm' = bpm
          /\ ActiveTrackIds' # {}
          /\ \A t \in ActiveTrackIds' : activeSources'[t].rate = bpm]_vars

\* C31, its case: a tempo command has changed the bpm of a paused engine in
\* the middle of the material; the offsets are where pause() left them, no
\* source is active and play() can start the run
C31_Witness ==
  /\ lastCall.op = "setBpm"
  /\ initialized /\ ~playing
  /\ bpm = MAX_BPM /\ pitchBpm = MAX_BPM
  /\ pausedInputOffsetSec > 0
  /\ pausedInputOffsetSec < durationSec
  /\ ActiveTrackIds = {}
  /\ ENABLED (play({"running"}) /\ playing')

\* output-clock values the position of a run is read at: around the scheduled
\* start, now, and up to far beyond the end of the material
RunClockProbes ==
  {startContextSec - 1, startContextSec, startContextSec + 1, now, now + 1,
   now + MaxOver(FineSteps), now + MaxOver(CoarseSteps),
   now + 100 * MaxOver(CoarseSteps)}

\* the position the formula gives at output-clock value clock
FormulaPosition(clock) ==
  clamp(startInputOffsetSec + Max2(0, clock - startContextSec) * bpm, 0, durationSec)

\* the positions read from one state of a run at the probed clock values
PositionFollowsClock ==
  playing /\ audioCtx # "null" =>
    /\ startInputOffsetSec >= 0 /\ startInputOffsetSec <= durationSec
    /\ \A c \in RunClockProbes :
         /\ getCurrentInputSecAt(c) = FormulaPosition(c)
         /\ c <= startContextSec => getCurrentInputSecAt(c) = startInputOffsetSec
    /\ \A c1, c2 \in RunClockProbes :
         c1 <= c2 =>
           /\ getCurrentInputSecAt(c1) <= getCurrentInputSecAt(c2)
           /\ c1 >= startContextSec /\ getCurrentInputSecAt(c2) < durationSec =>
                getCurrentInputSecAt(c2) - getCurrentInputSecAt(c1) = (c2 - c1) * bpm
           /\ c1 >= startContextSec /\ getCurrentInputSecAt(c2) = durationSec =>
                getCurrentInputSecAt(c2) - getCurrentInputSecAt(c1) <= (c2 - c1) * bpm

\* C32: while Playing with no intervening command, the reported position
\* equals clamp(startInputOffsetSec + max(0, outputClockNow - startContextSec)
\* x bpm / BASE_BPM, 0, durationSec): it is non-decreasing in the output
\* clock, stays at the start offset until the scheduled start time is
\* reached, and advances bpm / BASE_BPM input-seconds per output-second
\* thereafter (until it reaches durationSec, where the clamp holds it).
C32_PositionFollowsClock ==
  /\ [](PositionFollowsClock)
  /\ [][\A d \in FineSteps \cup CoarseSteps :
          Tick(d) /\ playing /\ audioCtx # "null" =>
            /\ playing' /\ UNCHANGED <<bpm, durationSec, posVars>>
            /\ getCurrentInputSec' = FormulaPosition(now')
            /\ getCurrentInputSec' >= getCurrentInputSec
            /\ now' <= startContextSec => getCurrentInputSec' = startInputOffsetSec
            /\ now >= startContextSec /\ getCurrentInputSec' < durationSec =>
                 getCurrentInputSec' - getCurrentInputSec = (now' - now) * bpm]_vars

\* C32, its case: a run at a tempo other than the base tempo, past its
\* scheduled start and inside the material, whose position has advanced by
\* the elapsed output time times bpm / BASE_BPM
C32_Witness ==
  /\ playing
  /\ bpm # BASE_BPM
  /\ now > startContextSec
  /\ getCurrentInputSec < durationSec
  /\ getCurrentInputSec = startInputOffsetSec + (now - startContextSec) * bpm
  /\ getCurrentInputSec > startInputOffsetSec
  /\ ENABLED Tick(MaxOver(FineSteps))

\* ---------------------------------------------------------------- beat alignment
\* The dynamic program of deriveBarStartsFromBeats.  Scores are counted in
\* thousandths (a quotient is rounded down to the next thousandth); a pattern
\* is the record [bars, twoBeat, hint] of the number of display bars, the
\* two-beat bar indexes and the tempo hint of each bar index (0 when none).

\* the pattern the engine of this model is constructed with
EnginePattern ==
  [bars |-> Len(displayScoreBars),
   twoBeat |-> twoBeatBarIndexes,
   hint |-> [i \in 0..(Len(displayScoreBars) - 1) |->
               IF i \in tempoHintBarIndexes THEN tempoHintByBarIndex(i) ELSE 0]]

\* AudioEngine.getBarBeatCount for an engine constructed with pattern
getBarBeatCountOf(barIndex, pattern) == IF barIndex \in pattern.twoBeat THEN 2 ELSE 4

\* AudioEngine.getExpectedBarDurationSec for an engine constructed with pattern
getExpectedBarDurationSecOf(barIndex, beatCount, fallbackBeatSec, pattern) ==
  IF barIndex \in DOMAIN pattern.hint /\ pattern.hint[barIndex] > 0
  THEN (SecUnits(60) \div pattern.hint[barIndex]) * beatCount
  ELSE fallbackBeatSec * beatCount

\* the least member of a non-empty set of integers
MinOver(S) == CHOOSE x \in S : \A y \in S : x <= y

\* AudioEngine.normalize, its values in thousandths
normalize(values) ==
  IF Len(values) = 0 THEN <<>>
  ELSE LET min == MinOver({values[i] : i \in DOMAIN values})
           max == MaxOver({values[i] : i \in DOMAIN values})
       IN IF max = min THEN [i \in DOMAIN values |-> 0]
          ELSE [i \in DOMAIN values |-> ((values[i] - min) * 1000) \div (max - min)]

\* deriveBarStartsFromBeats: startScore of the beats, by beat index (0-based)
startScoreOf(beats) ==
  LET beatStrength == normalize([i \in DOMAIN beats |-> beats[i].strength])
      beatBrightness == normalize([i \in DOMAIN beats |-> beats[i].brightness])
  IN [index \in 0..(Len(beats) - 1) |->
        (beatStrength[index + 1] * 72 + beatBrightness[index + 1] * 28) \div 100]

\* deriveBarStartsFromBeats: the score of no path, in thousandths; no score of
\* a path comes near half of it
impossible == -1000000000

\* mutation of stepCandidates: the other candidate consumes three beats
stepCandidatesWithThree(preferredBeatCount) == <<preferredBeatCount, 3>>

\* deriveBarStartsFromBeats: the steps tried from a beat, the bar's own first
stepCandidates(preferredBeatCount) ==
  IF preferredBeatCount = 2 THEN <<2, 4>> ELSE <<4, 2>>

\* deriveBarStartsFromBeats: durationPenalty of a bar from currentBeat to nextBeat
durationPenalty(in, bar, currentBeat, step) ==
  LET barDurationSec == in.beatTimes[currentBeat + step + 1] - in.beatTimes[currentBeat + 1]
      expectedSec == getExpectedBarDurationSecOf(bar, step, in.medianBeatSec, in.pattern)
  IN -((Abs(barDurationSec - expectedSec) * 1000)
         \div Max2((expectedSec * 45) \div 100, MsUnits(120)))

\* deriveBarStartsFromBeats: meterPenalty of a step, -1.4 when it is not the bar's own
meterPenalty(in, bar, step) ==
  IF step = getBarBeatCountOf(bar, in.pattern) THEN 0 ELSE -1400

\* deriveBarStartsFromBeats: what a step from currentBeat adds to the score
stepScore(in, bar, currentBeat, step) ==
  in.startScore[currentBeat + step] + durationPenalty(in, bar, currentBeat, step)
    + meterPenalty(in, bar, step)

\* mutation of improves: the first path that reaches a cell keeps it
improvesFirstOnly(score, held) == held = impossible

\* deriveBarStartsFromBeats: a score replaces the one held in a cell
improves(score, held) == score > held

\* deriveBarStartsFromBeats: one step candidate tried from dp[bar][currentBeat]
tryStep(in, tab, bar, currentBeat, step) ==
  LET nextBeat == currentBeat + step
  IN IF nextBeat >= in.beatCount THEN tab
     ELSE LET score == tab.dp[bar][currentBeat] + stepScore(in, bar, currentBeat, step)
          IN IF improves(score, tab.dp[bar + 1][nextBeat])
             THEN [dp |-> [tab.dp EXCEPT ![bar + 1][nextBeat] = score],
                   prev |-> [tab.prev EXCEPT ![bar + 1][nextBeat] = currentBeat]]
             ELSE tab

\* deriveBarStartsFromBeats: the loop over the step candidates of a beat
fillBeat(in, tab, bar, currentBeat) ==
  LET candidates == stepCandidates(getBarBeatCountOf(bar, in.pattern))
  IN tryStep(in, tryStep(in, tab, bar, currentBeat, candidates[1]),
             bar, currentBeat, candidates[2])

\* deriveBarStartsFromBeats: the loop over currentBeat of one bar, from
\* currentBeat on; a beat that no path has reached is skipped
RECURSIVE fillBar(_, _, _, _)
fillBar(in, tab, bar, currentBeat) ==
  IF currentBeat >= in.beatCount THEN tab
  ELSE IF tab.dp[bar][currentBeat] <= impossible \div 2
  THEN fillBar(in, tab, bar, currentBeat + 1)
  ELSE fillBar(in, fillBeat(in, tab, bar, currentBeat), bar, currentBeat + 1)

\* deriveBarStartsFromBeats: the loop over bar, from bar on
RECURSIVE fillFrom(_, _, _)
fillFrom(in, tab, bar) ==
  IF bar >= in.fittedBarCount - 1 THEN tab
  ELSE fillFrom(in, fillBar(in, tab, bar, 0), bar + 1)

\* deriveBarStartsFromBeats: terminalPenalty of ending at beatIndex
terminalPenalty(in, beatIndex) == -(Abs(((in.beatCount - 1) - beatIndex) - 4) * 45)

\* deriveBarStartsFromBeats: the loop that chooses bestEndBeat, from beatIndex on
RECURSIVE bestEndFrom(_, _, _, _, _)
bestEndFrom(in, tab, beatIndex, bestScore, bestEndBeat) ==
  IF beatIndex >= in.beatCount THEN bestEndBeat
  ELSE LET score == tab.dp[in.fittedBarCount - 1][beatIndex] + terminalPenalty(in, beatIndex)
       IN IF score > bestScore
          THEN bestEndFrom(in, tab, beatIndex + 1, score, beatIndex)
          ELSE bestEndFrom(in, tab, beatIndex + 1, bestScore, bestEndBeat)

\* deriveBarStartsFromBeats: the backtrack from bar down, beatIndexStarts
\* holding the entries of bar and of the bars after it; <<>> when a
\* predecessor is missing
RECURSIVE backtrackFrom(_, _, _)
backtrackFrom(tab, bar, beatIndexStarts) ==
  IF bar <= 0 THEN beatIndexStarts
  ELSE LET previous == tab.prev[bar][Head(beatIndexStarts)]
       IN IF previous < 0 THEN <<>>
          ELSE backtrackFrom(tab, bar - 1, <<previous>> \o beatIndexStarts)

\* deriveBarStartsFromBeats: what the dynamic program works on
alignmentInput(beats, targetBarCount, pattern) ==
  LET beatTimes == [i \in DOMAIN beats |-> beats[i].timeSec]
  IN [beatTimes |-> beatTimes,
      startScore |-> startScoreOf(beats),
      medianBeatSec |-> medianBeatSecOf(beatTimes),
      beatCount |-> Len(beats),
      fittedBarCount |-> fittedBarCountOf(Len(beats), targetBarCount),
      pattern |-> pattern]

\* deriveBarStartsFromBeats: dp and prev before the fill
emptyTables(in) ==
  [dp |-> [bar \in 0..(in.fittedBarCount - 1) |->
             [beat \in 0..(in.beatCount - 1) |->
                IF bar = 0 /\ beat = 0 THEN 0 ELSE impossible]],
   prev |-> [bar \in 0..(in.fittedBarCount - 1) |->
               [beat \in 0..(in.beatCount - 1) |-> -1]]]

\* deriveBarStartsFromBeats: dp and prev after the fill
filledTables(in) == fillFrom(in, emptyTables(in), 0)

\* deriveBarStartsFromBeats: beatIndexStarts after the backtrack (one 0-based
\* beat index per fitted bar), <<>> when the function falls back to the grid
beatIndexStartsOf(in) ==
  LET tab == filledTables(in)
      lastBar == in.fittedBarCount - 1
      bestEndBeat == bestEndFrom(in, tab, 0, impossible, -1)
  IN IF bestEndBeat < 0 THEN <<>>
     ELSE backtrackFrom(tab, lastBar, <<bestEndBeat>>)

\* a beat list: beat i (1-based) at times[i] with the strength and brightness
\* given for its 0-based index
BeatList(times, strengths, brightnesses) ==
  [i \in DOMAIN times |->
     [timeSec |-> times[i],
      strength |-> IF i = 1 THEN 0 ELSE strengths[((i - 1) % Len(strengths)) + 1],
      brightness |-> IF i = 1 THEN 0
                     ELSE brightnesses[((i - 1) % Len(brightnesses)) + 1]]]

\* beat times with gaps that alternate between short and long, milliseconds
AlternatingGrid(n, short, long) ==
  [i \in 1..n |-> MsUnits(((i - 1) \div 2) * (short + long) + ((i - 1) % 2) * short)]

\* beat times gap milliseconds apart, with a rest of rest milliseconds more
\* before each of the beats (1-based) in restBeats
PausedGrid(n, gap, restBeats, rest) ==
  [i \in 1..n |->
     MsUnits((i - 1) * gap + rest * Cardinality({k \in restBeats : k <= i}))]

\* beat lists the alignment is run on: as many beats as the alignment needs
\* or one more, the first beat at 0 with strength 0, the others at least
\* 0.19 s apart (what detectBeatPoints returns); accents every fourth beat,
\* every second beat, none at all, irregular ones, and pauses inside bars
AlignedBeatLists ==
  { BeatList(BeatGrid(25, 750, 750), <<9, 3, 4, 3>>, <<1>>),
    BeatList(BeatGrid(24, 500, 500), <<3, 8>>, <<2, 1, 1>>),
    BeatList(BeatGrid(24, 750, 750), <<5>>, <<1>>),
    BeatList(AlternatingGrid(25, 400, 900), <<2, 7, 1, 8, 2, 8, 1>>, <<3, 1, 4, 1, 5>>),
    BeatList(BeatGrid(24, 240, 240), <<1, 2, 3, 4, 5, 6>>, <<6, 1>>),
    BeatList(PausedGrid(24, 750, {4, 11}, 3000), <<4, 9>>, <<1>>),
    BeatList(PausedGrid(25, 600, {2, 7, 8, 15}, 2400), <<1, 1, 6>>, <<2, 5>>) }

\* patterns of bars display bars: every assignment of two-beat bars, with
\* and without a tempo hint of 60 on the second bar
AlignmentPatterns(bars) ==
  { [bars |-> bars, twoBeat |-> twoBeat,
     hint |-> [i \in 0..(bars - 1) |-> IF i \in hinted THEN 60 ELSE 0]] :
      twoBeat \in SUBSET (0..(bars - 1)), hinted \in {{}, {1}} }

\* numbers of display bars the alignment is run with: the engine's, and one
\* for which not every chain of four-beat steps fits into the beat list
AlignedBarCounts == {Len(displayScoreBars), 7}

\* the engine's fields, which the analysis specifications leave alone
engineVars ==
  <<mixVars, graphVars, flagVars, bpm, durationSec, posVars, runVars, barVars,
    clockVars, pending, lastCall>>

\* deriveBarStartsFromBeats entered with a beat list and a pattern: the
\* scores, the median beat length and the tables are set up
AlignmentEntered(beats, pattern) ==
  LET in == alignmentInput(beats, pattern.bars, pattern)
  IN analysis = [stage |-> "align.fill", in |-> in, tab |-> emptyTables(in), bar |-> 0]

\* deriveBarStartsFromBeats: one pass of the loop over bar
AlignFillBar ==
  /\ analysis.stage = "align.fill"
  /\ analysis.bar < analysis.in.fittedBarCount - 1
  /\ analysis' = [analysis EXCEPT
                    !.tab = fillBar(analysis.in, analysis.tab, analysis.bar, 0),
                    !.bar = analysis.bar + 1]
  /\ UNCHANGED engineVars

\* deriveBarStartsFromBeats: the loop over the end beats after the fill
AlignChooseEnd ==
  /\ analysis.stage = "align.fill"
  /\ analysis.bar >= analysis.in.fittedBarCount - 1
  /\ analysis' = [stage |-> "align.end", in |-> analysis.in, tab |-> analysis.tab,
                  bestEndBeat |-> bestEndFrom(analysis.in, analysis.tab, 0, impossible, -1)]
  /\ UNCHANGED engineVars

\* deriveBarStartsFromBeats: the backtrack; beatIndexStarts is <<>> when the
\* function falls back to the uniform grid
AlignBacktrack ==
  /\ analysis.stage = "align.end"
  /\ analysis' = [stage |-> "align.done", in |-> analysis.in,
                  beatIndexStarts |->
                    IF analysis.bestEndBeat < 0 THEN <<>>
                    ELSE backtrackFrom(analysis.tab, analysis.in.fittedBarCount - 1,
                                       <<analysis.bestEndBeat>>)]
  /\ UNCHANGED engineVars

\* the alignment: deriveBarStartsFromBeats is entered with each beat list and
\* each pattern and stepped through to its backtracked beat indexes
InitAlign ==
  /\ EngineConstructed
  /\ \E beats \in AlignedBeatLists,
        pattern \in UNION {AlignmentPatterns(bars) : bars \in AlignedBarCounts} :
       AlignmentEntered(beats, pattern)

NextAlign ==
  \/ AlignFillBar
  \/ AlignChooseEnd
  \/ AlignBacktrack

SpecAlign == InitAlign /\ [][NextAlign]_vars

\* the chains of beat indexes with steps of 2 or 4 that fit into the beat list
FittingChains(in) == BeatIndexStarts(in.fittedBarCount, in.beatCount)

\* a chain starts at beat 0 and each of its steps is 2 or 4 beats
StartsAtZeroInSteps(c) ==
  /\ Len(c) >= 1
  /\ c[1] = 0
  /\ \A bar \in 1..(Len(c) - 1) : c[bar + 1] - c[bar] \in {2, 4}

\* C33: on the beat-alignment path, the bar-start beat indices chosen by
\* backtracking (before de-duplication) begin at beat index 0 and each
\* consecutive pair differs by exactly 2 or exactly 4 detected beats, for
\* every beat list with at least max(24, 2 x N) beats and every assignment of
\* two-beat bars.
C33_ChainInSteps ==
  /\ analysis.stage \in {"align.fill", "align.end", "align.done"} =>
       /\ analysis.in.beatCount >= Max2(24, 2 * analysis.in.pattern.bars)
       /\ analysis.in.fittedBarCount = analysis.in.pattern.bars
  /\ analysis.stage = "align.end" => analysis.bestEndBeat >= 0
  /\ analysis.stage = "align.done" =>
       /\ Len(analysis.beatIndexStarts) = analysis.in.pattern.bars
       /\ StartsAtZeroInSteps(analysis.beatIndexStarts)
       /\ analysis.beatIndexStarts[Len(analysis.beatIndexStarts)] < analysis.in.beatCount
       /\ analysis.beatIndexStarts = beatIndexStartsOf(analysis.in)

\* C33, its case: the backtrack has returned a chain for seven bars of which
\* the second and the sixth have two beats; the chain takes steps of both sizes
C33_Witness ==
  /\ analysis.stage = "align.done"
  /\ analysis.in.pattern.bars = 7
  /\ analysis.in.pattern.twoBeat = {1, 5}
  /\ Len(analysis.beatIndexStarts) = 7
  /\ \E bar \in 1..6 : analysis.beatIndexStarts[bar + 1] - analysis.beatIndexStarts[bar] = 2
  /\ \E bar \in 1..6 : analysis.beatIndexStarts[bar + 1] - analysis.beatIndexStarts[bar] = 4

\* the score of the first bars of a chain: the sum over its steps of the
\* landing beat's startScore, the duration-fit term and the meter penalty
RECURSIVE ChainStepsScore(_, _, _)
ChainStepsScore(in, c, bars) ==
  IF bars <= 1 THEN 0
  ELSE ChainStepsScore(in, c, bars - 1)
         + in.startScore[c[bars]]
         + durationPenalty(in, bars - 2, c[bars - 1], c[bars] - c[bars - 1])
         + meterPenalty(in, bars - 2, c[bars] - c[bars - 1])

\* the score of a whole chain: its steps, less the terminal penalty of 0.045
\* for each leftover beat more or fewer than 4
ChainScore(in, c) ==
  ChainStepsScore(in, c, Len(c)) - 45 * Abs(((in.beatCount - 1) - c[Len(c)]) - 4)

\* a chain takes a step that is not the configured beat count of its bar
OffMeter(in, c) ==
  \E bar \in 1..(Len(c) - 1) : c[bar + 1] - c[bar] # getBarBeatCountOf(bar - 1, in.pattern)

\* C34: the bar sequence returned by the dynamic program is optimal: among
\* all sequences of N beat indices starting at beat 0 with consecutive steps
\* of 2 or 4 beats (that fit into the beat list), it maximises the sum over
\* bars of (landing-beat confidence + duration-fit term + meter-preference
\* penalty of -1.4 when the step differs from the bar's configured count)
\* with the terminal penalty of 0.045 x |leftover beats - 4| taken off.
C34_ChainOptimal ==
  analysis.stage = "align.done" =>
    /\ analysis.beatIndexStarts \in FittingChains(analysis.in)
    /\ \A c \in FittingChains(analysis.in) :
         ChainScore(analysis.in, analysis.beatIndexStarts) >= ChainScore(analysis.in, c)

\* C34, its case: the returned chain leaves the configured beat count of some
\* bar, scores strictly more than the chain that keeps to the configured
\* counts, and not every chain of four-beat steps fits into the beat list
C34_Witness ==
  /\ analysis.stage = "align.done"
  /\ analysis.in.pattern.bars = 7
  /\ OffMeter(analysis.in, analysis.beatIndexStarts)
  /\ Cardinality(FittingChains(analysis.in)) < 64
  /\ \E c \in FittingChains(analysis.in) :
       /\ ~OffMeter(analysis.in, c)
       /\ ChainScore(analysis.in, c) < ChainScore(analysis.in, analysis.beatIndexStarts)

\* ---------------------------------------------------------------- beat detection
\* The peak picking of detectBeatPoints.  The onset strength of a frame is an
\* integer; the frames (0-based) that are not listed in analysis.onset have
\* strength 0.  The threshold is counted in hundredths.
hop == 256

\* detectBeatPoints: minGapFrames for a buffer of the given sample rate
minGapFramesOf(sampleRate) == Max2(1, (sampleRate * 22) \div (hop * 100))

\* detectBeatPoints: onset[i]
onsetAt(a, i) == IF i \in DOMAIN a.onset THEN a.onset[i] ELSE 0

\* detectBeatPoints: values[k] of the sorted onset strengths
sortedOnsetAt(a, k) ==
  MinOver({v \in {onsetAt(a, i) : i \in 0..(a.frameCount - 1)} :
             Cardinality({i \in 0..(a.frameCount - 1) : onsetAt(a, i) <= v}) > k})

\* detectBeatPoints: threshold = p90 + (p99 - p90) * 0.24, in hundredths
thresholdOf(a) ==
  LET p90 == sortedOnsetAt(a, (a.frameCount * 90) \div 100)
      p99 == sortedOnsetAt(a, (a.frameCount * 99) \div 100)
  IN p90 * 100 + (p99 - p90) * 24

\* detectBeatPoints: frame i passes the test at the head of the peak loop
isPeakCandidate(a, i) ==
  ~(\/ onsetAt(a, i) * 100 < a.threshold
    \/ onsetAt(a, i) < onsetAt(a, i - 1)
    \/ onsetAt(a, i) < onsetAt(a, i + 1))

\* mutation of replacesLast: the peak kept first stays
replacesLastNever(a, i, last) == FALSE

\* detectBeatPoints: a candidate within the gap replaces the last peak
replacesLast(a, i, last) == onsetAt(a, i) > onsetAt(a, last)

\* detectBeatPoints: peaks after the body of the peak loop for candidate i
peaksAfter(a, i) ==
  IF Len(a.peaks) > 0 /\ i - a.peaks[Len(a.peaks)] < a.minGapFrames
  THEN IF replacesLast(a, i, a.peaks[Len(a.peaks)])
       THEN [a.peaks EXCEPT ![Len(a.peaks)] = i]
       ELSE a.peaks
  ELSE Append(a.peaks, i)

\* detectBeatPoints at its peak loop, for a buffer of frameCount frames with
\* the given onset strengths
PeakLoopEntered(sampleRate, frameCount, onset) ==
  LET a == [onset |-> onset, frameCount |-> frameCount]
  IN analysis = [stage |-> "peaks.loop", sampleRate |-> sampleRate,
                 frameCount |-> frameCount, onset |-> onset,
                 threshold |-> thresholdOf(a),
                 minGapFrames |-> minGapFramesOf(sampleRate),
                 i |-> 1, peaks |-> <<>>]

\* the frames from analysis.i on that pass the test of the peak loop
CandidatesAhead ==
  {j \in analysis.i..(analysis.frameCount - 2) : isPeakCandidate(analysis, j)}

\* detectBeatPoints: the peak loop runs on to the next frame that passes its
\* test and through its body for that frame
PeakLoopBody ==
  /\ analysis.stage = "peaks.loop"
  /\ CandidatesAhead # {}
  /\ LET i == MinOver(CandidatesAhead)
     IN analysis' = [analysis EXCEPT !.peaks = peaksAfter(analysis, i), !.i = i + 1]
  /\ UNCHANGED engineVars

\* detectBeatPoints: the peak loop runs to its end, no frame passing its test
PeakLoopEnds ==
  /\ analysis.stage = "peaks.loop"
  /\ CandidatesAhead = {}
  /\ analysis' = [analysis EXCEPT !.stage = "peaks.done", !.i = analysis.frameCount - 1]
  /\ UNCHANGED engineVars

\* number of frames of the click buffers of the peak specification
PeakFrames == 90
\* sample rates of the output context
SampleRates == {44100, 48000}
\* frames that carry a spike of onset strength: 37, 40 and 41 frames after
\* the first, neighbours of each other, and 37, 38 and 41 frames before the last
SpikeFrames == {5, 20, 42, 45, 46, 83}
\* onset strength of a spike (0: none)
SpikeLevels == {0, 1, 3}
\* frames of a stretch of steady onset strength 1 (more than a tenth of the
\* frames, so that the threshold lies above strength 1), or none
NoiseFrames == {{}, 60..70}

\* the onset strengths of a buffer: spikes, on top of the steady stretch
OnsetOf(spikes, noise) ==
  [i \in {f \in SpikeFrames : spikes[f] > 0} \cup noise |->
     IF i \in SpikeFrames /\ spikes[i] > 0 THEN spikes[i] ELSE 1]

\* the peak picking: detectBeatPoints reaches its peak loop with each sample
\* rate and each envelope and is stepped through it
InitPeaks ==
  /\ EngineConstructed
  /\ \E sampleRate \in SampleRates, spikes \in [SpikeFrames -> SpikeLevels],
        noise \in NoiseFrames :
       PeakLoopEntered(sampleRate, PeakFrames, OnsetOf(spikes, noise))

NextPeaks ==
  \/ PeakLoopBody
  \/ PeakLoopEnds

SpecPeaks == InitPeaks /\ [][NextPeaks]_vars


\* the peak kept last
LastPeak(a) == a.peaks[Len(a.peaks)]

\* no two kept peaks are closer than floor(sampleRate x 0.22 / 256) frames, at
\* least one frame: 37 frames at 44.1 kHz, 41 frames at 48 kHz
PeaksApart ==
  analysis.stage \in {"peaks.loop", "peaks.done"} =>
    LET gap == IF (analysis.sampleRate * 22) \div 25600 >= 1
               THEN (analysis.sampleRate * 22) \div 25600 ELSE 1
    IN /\ gap >= 1
       /\ analysis.sampleRate = 44100 => gap = 37
       /\ analysis.sampleRate = 48000 => gap = 41
       /\ \A k \in 1..(Len(analysis.peaks) - 1) :
            analysis.peaks[k + 1] - analysis.peaks[k] >= gap

\* the loop body has run for a frame within the gap of the last kept peak
CandidateInGap ==
  /\ PeakLoopBody
  /\ Len(analysis.peaks) > 0
  /\ (analysis'.i - 1) - LastPeak(analysis) < analysis.minGapFrames

\* of the candidate and the last kept peak the stronger one is kept, the
\* earlier one when they are equally strong, in the place of the last peak
StrongerKept ==
  CandidateInGap =>
    LET i == analysis'.i - 1
        last == LastPeak(analysis)
    IN /\ Len(analysis'.peaks) = Len(analysis.peaks)
       /\ \A k \in 1..(Len(analysis.peaks) - 1) : analysis'.peaks[k] = analysis.peaks[k]
       /\ LastPeak(analysis') \in {i, last}
       /\ onsetAt(analysis, LastPeak(analysis')) >= onsetAt(analysis, i)
       /\ onsetAt(analysis, LastPeak(analysis')) >= onsetAt(analysis, last)
       /\ onsetAt(analysis, i) = onsetAt(analysis, last) => LastPeak(analysis') = last

\* C35: in the peak selection of the beat detector no two selected peaks are
\* closer than the minimum gap (floor(sampleRate x 0.22 / 256) frames, at
\* least 1), and when a local maximum above the threshold falls within the gap
\* of the most recently kept peak, the stronger of the two is the one kept.
C35_PeaksApart == [](PeaksApart) /\ [][StrongerKept]_vars

\* the loop has ended with two peaks of which the second, of strength 3,
\* replaced the peak of strength 1 kept four frames before it
C35_Witness ==
  /\ analysis.stage = "peaks.done"
  /\ analysis.sampleRate = 44100
  /\ analysis.peaks = <<5, 46>>
  /\ onsetAt(analysis, 42) = 1
  /\ onsetAt(analysis, 45) = 0
  /\ onsetAt(analysis, 46) = 3

\* ---------------------------------------------------------------- selected bar
\* the transport with the tempo command and destroy(): initialization with
\* each load outcome, every transport command, the completion callbacks and
\* the clock
NextSelect ==
  \/ Microtask
  \/ Task(init({"running"}))
  \/ Task(play({"running"}))
  \/ Task(\E s \in Slots, owner \in {"init", "play"} : InitAfterWorklet(s, owner, TRUE))
  \/ Task(\E s \in Slots, owner \in {"init", "play"} : InitLoadFailed(s, owner))
  \/ Task(\E s \in Slots, owner \in {"init", "play"}, bufs \in LoadOutcomes :
            InitLoaded(s, owner, bufs))
  \/ Task(\E s \in Slots : SeekResumed(s))
  \/ Task(pause)
  \/ Task(stop)
  \/ Task(destroy)
  \/ Task(\E n \in TransportBpmArgs : setBpm(n))
  \/ Task(\E bar \in BarArgs : setStartBar(bar))
  \/ Task(\E t \in Tracks : onended(t))
  \/ Task(\E d \in FineSteps \cup CoarseSteps : Tick(d))

SpecSelect == Init /\ [][NextSelect]_vars

\* C36: in every reachable state the selected start bar index is a valid index
\* of the bar table (0 <= index <= min(#display bars, #bar starts) - 1) and is
\* the index of the bar that contains the stored paused offset, after any
\* sequence of init, play, pause, stop, setStartBar, setBpm, destroy and
\* completion callbacks.
C36_SelectedBar ==
  /\ selectedStartBar \in 0..(Min2(Len(displayScoreBars), Len(barStartSec)) - 1)
  /\ \A bar \in 0..(Len(barStartSec) - 1) :
       (/\ bar <= Len(displayScoreBars) - 1
        /\ barStartSec[bar + 1] <= pausedInputOffsetSec
        /\ \/ bar = Min2(Len(displayScoreBars), Len(barStartSec)) - 1
           \/ pausedInputOffsetSec < barStartSec[bar + 2])
       => selectedStartBar = bar

\* the engine was paused inside a bar after the first, at a changed tempo
C36_Witness ==
  /\ lastCall.op = "pause"
  /\ ~playing
  /\ bpm # BASE_BPM
  /\ selectedStartBar > 0
  /\ pausedInputOffsetSec > barStartSec[selectedStartBar + 1]

\* ---------------------------------------------------------------- live sources
\* the transport commands in any order, also while a play() or a setStartBar()
\* is suspended, with the tempo command, the end callbacks of the registered
\* sources and the ended events of the stopped ones
NextSources ==
  \/ Microtask
  \/ Task(play(CtxStates))
  \/ Task(\E s \in Slots : InitAfterWorklet(s, "play", TRUE))
  \/ Task(\E s \in Slots : InitLoaded(s, "play", LongLoad))
  \/ Task(\E s \in Slots : PlayResumed(s))
  \/ Task(\E s \in Slots : SeekResumed(s))
  \/ Task(pause)
  \/ Task(stop)
  \/ Task(\E n \in TransportBpmArgs : setBpm(n))
  \/ Task(\E bar \in BarArgs : setStartBar(bar))
  \/ Task(\E t \in Tracks : onended(t))
  \/ Task(\E t \in Tracks : endedAfterStop(t))
  \/ Task(\E d \in FineSteps \cup CoarseSteps : Tick(d))

SpecSources == Init /\ [][NextSources]_vars

\* the source registered for track t leaves the registry in this step
SourceLeaves(t) ==
  /\ activeSources[t].on
  /\ ~activeSources'[t].on \/ activeSources'[t].run # activeSources[t].run

\* stopCurrentSources has stopped the source registered for track t in this step
SourceStopped(t) ==
  /\ playbackRunId' > playbackRunId
  /\ stoppedSources'[t] = [pending |-> TRUE, handler |-> FALSE]

\* the source registered for track t has ended and its callback runs in this step
SourceEnded(t) ==
  /\ SourceAtEnd(t)
  /\ lastCall'.op = "onended" /\ lastCall'.track = t
  /\ ~activeSources'[t].on

\* the sources in the registry are those of the latest start, one per track
RegisteredInCurrentRun ==
  \A t \in Tracks : activeSources[t].on => activeSources[t].run = playbackRunId

\* C37: under any interleaving of play(), pause(), stop(), setStartBar() and
\* setBpm() calls (also while another call is suspended at an await) and of
\* completion callbacks, every source that has been started and has neither
\* ended nor been stopped is registered in the active-source set, so that at
\* most one live source per track exists at any time: a source enters the
\* registry when it is started, the registry holds one source per track, all
\* of the latest start, and a source leaves it only when it is stopped or has
\* ended.
C37_LiveRegistered ==
  /\ [](RegisteredInCurrentRun)
  /\ [][\A t \in Tracks : SourceLeaves(t) => SourceStopped(t) \/ SourceEnded(t)]_vars

\* a setStartBar() has resumed late in a sequence of runs and started new
\* sources, while the ended event of a source it stopped is still to come
C37_Witness ==
  /\ lastCall.op = "seek.fade"
  /\ ~lastCall.threw
  /\ playing
  /\ playbackRunId >= 5
  /\ \E t \in Tracks : activeSources[t].on /\ stoppedSources[t].pending


\* ---------------------------------------------------------------- seek and pause
\* a setStartBar() on a playing engine is suspended in its fade-out wait, and
\* the last call that took effect since is a pause() or a stop()
HaltedDuringFade ==
  /\ \E s \in Slots : pending[s].pc = "seek.fade"
  /\ lastCall.op \in {"pause", "stop"}
  /\ ~playing

\* the suspended setStartBar() finishes in this step
SeekFinishes == (\E s \in Slots : SeekResumed(s)) /\ lastCall'.op = "seek.fade"

\* C38: a pause() or stop() issued while a setStartBar() on a playing engine
\* is suspended in its fade-out wait takes effect: once the pending
\* setStartBar() has finished, the engine is not playing and no source is
\* active until the next play() or setStartBar() call is issued.
C38_HaltDuringFade_AsStated ==
  [][HaltedDuringFade /\ SeekFinishes => ~playing' /\ activeSources' = NoSources]_vars


\* ---------------------------------------------------------------- initialized
\* the audio context and the output graph exist and every track has its buffer
EngineReady ==
  /\ audioCtx # "null"
  /\ masterGain # "null"
  /\ \A t \in Tracks : trackGainNodes[t].has
  /\ \A t \in Tracks : buffers[t] > 0

\* C39: in every reachable state initialized = true implies that the audio
\* context and the output graph exist and that the track buffers are loaded
\* (so that play() on an initialized engine never fails with 'AudioContext is
\* not ready'), also when destroy() is called while init() is suspended at one
\* of its awaits.
C39_InitializedReady_AsStated == initialized => EngineReady


\* ---------------------------------------------------------------- mix and transport
\* the tracks and the volume the mix commands name alongside the transport
MixRunTracks == {"click", UnknownTrack}
MixRunVolumes == {50}

\* the mix commands in every transport state: before, during and after
\* initialization, while playing, paused and stopped, at either tempo, and
\* while a setStartBar() is suspended
NextMixRun ==
  \/ Microtask
  \/ Task(\E trackId \in MixRunTracks : toggleMute(trackId))
  \/ Task(\E trackId \in MixRunTracks : toggleSolo(trackId))
  \/ Task(\E trackId \in MixRunTracks, volume \in MixRunVolumes : setVolume(trackId, volume))
  \/ Task(play({"running"}))
  \/ Task(\E s \in Slots : InitAfterWorklet(s, "play", TRUE))
  \/ Task(\E s \in Slots : InitLoaded(s, "play", LongLoad))
  \/ Task(\E s \in Slots : SeekResumed(s))
  \/ Task(pause)
  \/ Task(stop)
  \/ Task(\E n \in TransportBpmArgs : setBpm(n))
  \/ Task(\E bar \in BarArgs : setStartBar(bar))
  \/ Task(\E d \in FineSteps : Tick(d))

SpecMixRun == Init /\ [][NextMixRun]_vars

\* a mix command is called with track id trackId
MixCommand(trackId) ==
  \/ toggleMute(trackId)
  \/ toggleSolo(trackId)
  \/ \E volume \in MixRunVolumes : setVolume(trackId, volume)

\* C40: toggleMute, toggleSolo and setVolume never change the transport
\* state: playing, bpm, the start and paused offsets, the selected bar, the
\* run identifier and the active-source set are unchanged by them in every
\* state, and a call that names an unknown track id changes nothing at all.
C40_MixLeavesTransport ==
  [][/\ (\E trackId \in MixRunTracks : MixCommand(trackId)) =>
          UNCHANGED <<playing, bpm, startContextSec, startInputOffsetSec,
                      pausedInputOffsetSec, selectedStartBar, playbackRunId,
                      activeSources>>
     /\ MixCommand(UnknownTrack) => UNCHANGED vars]_vars

\* a track was muted or soloed or turned down while the engine was playing a
\* later run at a changed tempo
C40_Witness ==
  /\ lastCall.op \in {"toggleMute", "toggleSolo", "setVolume"}
  /\ lastCall.track = "click"
  /\ playing
  /\ bpm # BASE_BPM
  /\ playbackRunId > 2
  /\ \E t \in Tracks : activeSources[t].on
====
